---- MODULE Spec2Model ----
(***************************************************************************)
(* Verification model of lobby_backend: the one-time code store            *)
(* (core/services/auth_codes.py) and the role based access control of      *)
(* workspaces and projects (tools/permissions/base.py, workspace/views.py, *)
(* project/views.py).                                                      *)
(***************************************************************************)
EXTENDS Integers, Sequences, FiniteSets, TLC

VARIABLES
    cache,      \* the "auth_codes" cache: key -> [present, val, exp]
    now,        \* wall clock, in seconds
    issue,      \* history per user: what was stored last and what was tried since
    grant,      \* history per contact: time of the last can_send that returned True
    codeLast,   \* the last CodeStore call and its result
    flight,     \* CodeStore calls between two of their cache operations
    users,      \* accounts_user rows
    workspaces, \* workspace_workspace rows
    roles,      \* workspace_workspacerole rows
    members,    \* workspace_workspacemember rows
    projects,   \* project_project rows
    pmembers,   \* project_projectmember rows
    seq,        \* the primary key sequences, and the count of admin site edits
    pending,    \* add-member requests between their checks and their insert
    refused,    \* history: the kinds of duplicate add-member requests refused
    last        \* the last request carried out, failed or stopped by a view

codeVars == <<cache, now, issue, grant, codeLast, flight>>

projVars == <<projects, pmembers>>

rbacVars == <<users, workspaces, roles, members, projects, pmembers, seq, pending,
              refused, last>>

vars == <<cache, now, issue, grant, codeLast, flight,
          users, workspaces, roles, members, projects, pmembers, seq, pending,
          refused, last>>

----------------------------------------------------------------------------
(* Bounds *)

MaxTime == 1200         \* the clock stops here
MaxCalls == 7           \* verify calls followed per stored code
MaxWorkspaces == 1      \* workspaces created
MaxMembers == 2         \* workspace memberships, over all workspaces
MaxInFlight == 2        \* requests, and CodeStore calls, in flight at once
MaxProjects == 1        \* projects created
MaxProjectMembers == 2  \* project memberships, over all projects
MaxAdminEdits == 1      \* changes made through the admin site

(* Program constants *)

CODE_TTL == 600
THROTTLE_TTL == 60
MAX_ATTEMPTS == 5

(* Inputs *)

CodeUsers == {1}
Codes == {"123456", "654321"}
Emails == {"a@x.io", "A@x.io", "b@x.io"}

NoCode == "none"
Never == -1

----------------------------------------------------------------------------
(* core/services/auth_codes.py: keys and hashing *)

_key_code(user_id) == <<"auth:pr:code", user_id>>

\* the address goes through str.lower()
_key_throttle(email) ==
    <<"auth:pr:throttle", IF email = "A@x.io" THEN "a@x.io" ELSE email>>

_key_attempts(user_id) == <<"auth:pr:attempts", user_id>>

\* sha256 of the salted code: injective on Codes, never the code itself
_hash(code) == <<"sha256", "salt", code>>

AttemptKeys == {_key_attempts(u) : u \in CodeUsers}
ThrottleKeys == {_key_throttle(e) : e \in Emails}
Keys == {_key_code(u) : u \in CodeUsers} \cup AttemptKeys \cup ThrottleKeys

\* the value a key reads as when it holds nothing (None)
Blank(key) == IF key \in AttemptKeys THEN 0 ELSE <<>>

Empty(key) == [present |-> FALSE, val |-> Blank(key), exp |-> 0]

----------------------------------------------------------------------------
(* The Django cache API, per key with an absolute expiry *)

CacheLive(c, t, key) == c[key].present /\ t < c[key].exp

\* cache.get: the value, or None (Blank) when absent or expired
CacheGet(c, t, key) == IF CacheLive(c, t, key) THEN c[key].val ELSE Blank(key)

\* cache.set(key, value, timeout)
CacheSet(c, t, key, value, timeout) ==
    [c EXCEPT ![key] = [present |-> TRUE, val |-> value, exp |-> t + timeout]]

\* cache.add(key, value, timeout): stores only when the key holds nothing
CacheAddStores(c, t, key) == ~CacheLive(c, t, key)

\* cache.incr(key): adds one and keeps the expiry
CacheIncr(c, key) == [c EXCEPT ![key].val = @ + 1]

\* cache.delete(key)
CacheDelete(c, key) == [c EXCEPT ![key] = Empty(key)]

\* cache.delete_many(keys), for two keys
CacheDeleteMany(c, k1, k2) == CacheDelete(CacheDelete(c, k1), k2)

----------------------------------------------------------------------------
(* core/services/auth_codes.py: the operations as functions of the cache *)

\* can_send written with cache.set: every call reports success
can_send_result_set(c, t, email) == TRUE

\* can_send: the value returned
can_send_result(c, t, email) == CacheAddStores(c, t, _key_throttle(email))

\* can_send: the cache afterwards
can_send_cache(c, t, email) ==
    IF CacheAddStores(c, t, _key_throttle(email))
    THEN CacheSet(c, t, _key_throttle(email), <<"1">>, THROTTLE_TTL)
    ELSE c

\* store_code without the delete of line 31: the attempt counter stays
store_code_cache_counting(c, t, user_id, code) ==
    CacheSet(c, t, _key_code(user_id), _hash(code), CODE_TTL)

\* store_code: the cache afterwards
store_code_cache(c, t, user_id, code) ==
    CacheDelete(CacheSet(c, t, _key_code(user_id), _hash(code), CODE_TTL),
                _key_attempts(user_id))

\* verify_code, line 35: the attempt count of this call
verify_attempts(c, t, user_id) ==
    IF CacheGet(c, t, _key_attempts(user_id)) # 0
    THEN CacheGet(c, t, _key_attempts(user_id)) + 1
    ELSE 1

\* line 35 with a counter that is created with the throttle's expiry
verify_counted_short(c, t, user_id) ==
    IF CacheGet(c, t, _key_attempts(user_id)) # 0
    THEN CacheIncr(c, _key_attempts(user_id))
    ELSE CacheSet(c, t, _key_attempts(user_id), 1, THROTTLE_TTL)

\* verify_code, line 35: the cache after counting this call
verify_counted(c, t, user_id) ==
    IF CacheGet(c, t, _key_attempts(user_id)) # 0
    THEN CacheIncr(c, _key_attempts(user_id))
    ELSE CacheSet(c, t, _key_attempts(user_id), 1, CODE_TTL)

\* the lockout test off by one
verify_locked_late(attempts) == attempts > MAX_ATTEMPTS + 1

\* verify_code, line 36: the lockout test
verify_locked(attempts) == attempts > MAX_ATTEMPTS

\* secrets.compare_digest against the stored hash
compare_digest(stored, code) == stored # <<>> /\ stored = _hash(code)

\* verify_code: the value returned
verify_code_result(c, t, user_id, code) ==
    IF verify_locked(verify_attempts(c, t, user_id))
    THEN FALSE
    ELSE compare_digest(CacheGet(verify_counted(c, t, user_id), t, _key_code(user_id)), code)

\* verify_code without the delete_many of line 43
verify_code_cache_kept(c, t, user_id, code) == verify_counted(c, t, user_id)

\* verify_code: the cache afterwards
verify_code_cache(c, t, user_id, code) ==
    IF verify_code_result(c, t, user_id, code)
    THEN CacheDeleteMany(verify_counted(c, t, user_id),
                         _key_code(user_id), _key_attempts(user_id))
    ELSE verify_counted(c, t, user_id)

\* peek_code consuming the code on a match
peek_code_cache_consuming(c, t, user_id, code) ==
    IF compare_digest(CacheGet(c, t, _key_code(user_id)), code)
    THEN CacheDelete(c, _key_code(user_id))
    ELSE c

\* peek_code: the cache afterwards (it only reads)
peek_code_cache(c, t, user_id, code) == c

\* peek_code: the value returned
peek_code_result(c, t, user_id, code) ==
    compare_digest(CacheGet(c, t, _key_code(user_id)), code)

----------------------------------------------------------------------------
(* State of the code store *)

\* a slot of flight that holds no call
IdleCall == [op |-> "idle", user |-> 0, code |-> NoCode, counted |-> FALSE]

NoIssue == [code |-> NoCode, at |-> 0, calls |-> 0, lead |-> 0, hits |-> 0, peeks |-> 0,
            wrong |-> 0, compared |-> 0]

CodeInit ==
    /\ cache = [k \in Keys |-> Empty(k)]
    /\ now = 0
    /\ issue = [u \in CodeUsers |-> NoIssue]
    /\ grant = [k \in ThrottleKeys |-> Never]
    /\ codeLast = [op |-> "none"]
    /\ flight = [s \in 1..MaxInFlight |-> IdleCall]

Min(a, b) == IF a < b THEN a ELSE b

\* can_send(email)
CanSend(email) ==
    /\ cache' = can_send_cache(cache, now, email)
    /\ codeLast' = [op |-> "can_send", email |-> email,
                    result |-> can_send_result(cache, now, email),
                    prev |-> grant[_key_throttle(email)]]
    /\ grant' = IF can_send_result(cache, now, email)
                THEN [grant EXCEPT ![_key_throttle(email)] = now]
                ELSE grant
    /\ UNCHANGED <<now, issue>>
    /\ UNCHANGED flight
    /\ UNCHANGED rbacVars

\* store_code(user_id, code)
StoreCode(user_id, code) ==
    /\ cache' = store_code_cache(cache, now, user_id, code)
    /\ issue' = [issue EXCEPT ![user_id] = [NoIssue EXCEPT !.code = code, !.at = now]]
    /\ codeLast' = [op |-> "store", user |-> user_id, code |-> code,
                    attempts |-> CacheGet(cache, now, _key_attempts(user_id)),
                    prev |-> issue[user_id].code]
    /\ UNCHANGED <<now, grant>>
    /\ UNCHANGED flight
    /\ UNCHANGED rbacVars

\* verify_code(user_id, code)
VerifyCode(user_id, code) ==
    /\ issue[user_id].calls < MaxCalls
    /\ cache' = verify_code_cache(cache, now, user_id, code)
    /\ issue' = [issue EXCEPT
            ![user_id].calls = @ + 1,
            ![user_id].lead = IF issue[user_id].lead = issue[user_id].calls
                                 /\ code # issue[user_id].code
                              THEN Min(@ + 1, MAX_ATTEMPTS) ELSE @,
            ![user_id].hits = IF verify_code_result(cache, now, user_id, code)
                              THEN @ + 1 ELSE @]
    /\ codeLast' = [op |-> "verify", user |-> user_id, code |-> code,
                    result |-> verify_code_result(cache, now, user_id, code),
                    nth |-> issue[user_id].calls + 1,
                    lead |-> issue[user_id].lead,
                    won |-> issue[user_id].hits,
                    peeks |-> issue[user_id].peeks]
    /\ UNCHANGED <<now, grant>>
    /\ UNCHANGED flight
    /\ UNCHANGED rbacVars

\* peek_code(user_id, code)
PeekCode(user_id, code) ==
    /\ cache' = peek_code_cache(cache, now, user_id, code)
    /\ issue' = [issue EXCEPT ![user_id].peeks =
                    IF code = issue[user_id].code THEN Min(@ + 1, 2) ELSE @]
    /\ codeLast' = [op |-> "peek", user |-> user_id, code |-> code,
                    result |-> peek_code_result(cache, now, user_id, code),
                    calls |-> issue[user_id].calls]
    /\ UNCHANGED <<now, grant>>
    /\ UNCHANGED flight
    /\ UNCHANGED rbacVars

\* verify_code, line 35, first cache operation: CACHE.get(attempts_key); the
\* call keeps whether a count was there
VerifyGet(slot, user_id, code) ==
    /\ flight[slot] = IdleCall
    /\ \A s \in 1..(slot - 1) : flight[s] # IdleCall
    /\ issue[user_id].calls < MaxCalls
    /\ flight' = [flight EXCEPT ![slot] =
            [op |-> "count", user |-> user_id, code |-> code,
             counted |-> CacheGet(cache, now, _key_attempts(user_id)) # 0]]
    /\ UNCHANGED <<cache, now, issue, grant, codeLast>>
    /\ UNCHANGED rbacVars

\* verify_code, lines 35-37: CACHE.incr when the get returned a count (it raises
\* ValueError when the key is gone by now), CACHE.set(attempts_key, 1) when not;
\* then the lockout test
VerifyCount(slot) ==
    LET call == flight[slot]
        key == _key_attempts(call.user)
        raises == call.counted /\ ~CacheLive(cache, now, key)
        after == IF call.counted THEN CacheIncr(cache, key)
                 ELSE CacheSet(cache, now, key, 1, CODE_TTL)
        attempts == after[key].val
    IN /\ call.op = "count"
       /\ cache' = IF raises THEN cache ELSE after
       /\ issue' = IF raises THEN issue ELSE [issue EXCEPT ![call.user].calls = @ + 1]
       /\ IF raises \/ verify_locked(attempts)
          THEN /\ flight' = [flight EXCEPT ![slot] = IdleCall]
               /\ codeLast' = [op |-> "verified", result |-> FALSE, raised |-> raises]
          ELSE /\ flight' = [flight EXCEPT ![slot] = [call EXCEPT !.op = "read"]]
               /\ UNCHANGED codeLast
       /\ UNCHANGED <<now, grant>>
       /\ UNCHANGED rbacVars

\* verify_code, lines 38-42: CACHE.get(code key) and the comparison
VerifyRead(slot) ==
    LET call == flight[slot]
        stored == CacheGet(cache, now, _key_code(call.user))
    IN /\ call.op = "read"
       /\ issue' = IF stored # <<>>
                   THEN [issue EXCEPT ![call.user].compared = Min(@ + 1, MAX_ATTEMPTS + 1)]
                   ELSE issue
       /\ IF compare_digest(stored, call.code)
          THEN /\ flight' = [flight EXCEPT ![slot] = [call EXCEPT !.op = "delete"]]
               /\ UNCHANGED codeLast
          ELSE /\ flight' = [flight EXCEPT ![slot] = IdleCall]
               /\ codeLast' = [op |-> "verified", result |-> FALSE, raised |-> FALSE]
       /\ UNCHANGED <<cache, now, grant>>
       /\ UNCHANGED rbacVars

\* verify_code, lines 43-44: CACHE.delete_many and the return of True
VerifyDelete(slot) ==
    LET call == flight[slot]
    IN /\ call.op = "delete"
       /\ cache' = CacheDeleteMany(cache, _key_code(call.user), _key_attempts(call.user))
       /\ issue' = [issue EXCEPT ![call.user].hits = Min(@ + 1, MaxInFlight)]
       /\ flight' = [flight EXCEPT ![slot] = IdleCall]
       /\ codeLast' = [op |-> "verified", result |-> TRUE, raised |-> FALSE]
       /\ UNCHANGED <<now, grant>>
       /\ UNCHANGED rbacVars

\* store_code, line 30: CACHE.set of the hash
StoreSet(slot, user_id, code) ==
    /\ flight[slot] = IdleCall
    /\ \A s \in 1..(slot - 1) : flight[s] # IdleCall
    /\ cache' = CacheSet(cache, now, _key_code(user_id), _hash(code), CODE_TTL)
    /\ issue' = [issue EXCEPT ![user_id] = [NoIssue EXCEPT !.code = code, !.at = now]]
    /\ flight' = [flight EXCEPT ![slot] =
            [IdleCall EXCEPT !.op = "clear", !.user = user_id, !.code = code]]
    /\ UNCHANGED <<now, grant, codeLast>>
    /\ UNCHANGED rbacVars

\* store_code, line 31: CACHE.delete of the attempt counter
StoreClear(slot) ==
    LET call == flight[slot]
    IN /\ call.op = "clear"
       /\ cache' = CacheDelete(cache, _key_attempts(call.user))
       /\ flight' = [flight EXCEPT ![slot] = IdleCall]
       /\ codeLast' = [op |-> "stored"]
       /\ UNCHANGED <<now, issue, grant>>
       /\ UNCHANGED rbacVars

\* time passes; the backend drops what has expired
Tick(d) ==
    /\ now + d <= MaxTime
    /\ now' = now + d
    /\ cache' = [k \in Keys |-> IF cache[k].present /\ now + d < cache[k].exp
                                THEN cache[k] ELSE Empty(k)]
    /\ codeLast' = [op |-> "tick"]
    /\ UNCHANGED <<issue, grant>>
    /\ UNCHANGED flight
    /\ UNCHANGED rbacVars

----------------------------------------------------------------------------
(* workspace/constants.py, tools/permissions/defaults.py *)

ROLE_ADMIN == "admin"
ROLE_USER == "user"
ROLE_CLIENT == "client"

DEFAULT_ROLES == <<ROLE_ADMIN, ROLE_USER, ROLE_CLIENT>>

DefaultCapabilities ==
    {"can_edit_workspace", "can_delete_workspace",
     "can_change_role_in_workspace", "can_invite_users_to_workspace",
     "can_deactivate_users_in_workspace",
     "can_create_projects", "can_edit_projects", "can_delete_projects",
     "can_view_public_projects",
     "can_invite_users_to_project", "can_deactivate_users_in_project",
     "can_view_reports"}

DEFAULT_ROLE_PERMISSIONS ==
    [name \in {ROLE_ADMIN, ROLE_USER, ROLE_CLIENT} |->
        [cap \in DefaultCapabilities |->
            CASE name = ROLE_ADMIN -> TRUE
              [] name = ROLE_USER ->
                    cap \in {"can_create_projects", "can_view_public_projects",
                             "can_view_reports"}
              [] OTHER -> cap = "can_view_reports"]]

\* tools/permissions/constants.py: what every member may do whatever the role
DEFAULT_ALWAYS_ALLOWED_PERMISSIONS == {"can_view_workspace"}

\* the capability names the views and the permission classes ask for
RequiredCapabilities ==
    {"can_view_workspace", "can_edit_workspace", "can_invite_users",
     "can_change_roles", "owner_member", "can_create_projects",
     "can_view_project", "can_edit_project", "can_invite_users_to_project",
     "can_change_project_owner"}

Capabilities == DefaultCapabilities \cup RequiredCapabilities

Methods == {"GET", "PUT", "POST", "PATCH"}

NoPermission == ""      \* a view without required_*_permission
NoRole == 0             \* WorkspaceMember.role is NULL
NoUser == 0             \* no user found, or no value given
NoEmail == ""

----------------------------------------------------------------------------
(* Rows of the database *)

\* QuerySet.first(): the row with the lowest primary key
First(rows) == CHOOSE r \in rows : \A s \in rows : r.id <= s.id

UserByEmail(us, email) == {u \in us : u.email = email}

UserById(us, id) == {u \in us : u.id = id}

RolesOf(rs, workspace_id) == {r \in rs : r.workspace = workspace_id}

RoleByName(rs, workspace_id, name) ==
    {r \in rs : r.workspace = workspace_id /\ r.name = name}

RoleById(rs, workspace_id, id) ==
    {r \in rs : r.workspace = workspace_id /\ r.id = id}

MembersOf(ms, workspace_id) == {m \in ms : m.workspace = workspace_id}

MemberRows(ms, workspace_id, user_id) ==
    {m \in ms : m.workspace = workspace_id /\ m.user = user_id}

\* role.name of a member row; "" when the role is NULL
RoleName(rs, m) ==
    IF \E r \in rs : r.id = m.role
    THEN (CHOOSE r \in rs : r.id = m.role).name
    ELSE ""

\* dict.get(key, True): a key the settings do not hold counts as granted
SettingsGetGranted(settings, key) == IF key \in DOMAIN settings THEN settings[key] ELSE TRUE

\* dict.get(key, False) on a role's settings
SettingsGet(settings, key) == IF key \in DOMAIN settings THEN settings[key] ELSE FALSE

\* Model.save(update_fields=[...]) of one row
UpdateRow(rows, old, new) == (rows \ {old}) \cup {new}

\* unique_together = ('user', 'workspace') accepts every insert
UniqueViolationOff(ms, user_id, workspace_id) == FALSE

\* WorkspaceMember.Meta.unique_together = ('user', 'workspace')
UniqueViolation(ms, user_id, workspace_id) ==
    \E m \in ms : m.user = user_id /\ m.workspace = workspace_id

\* Workspace.save creating the roles on every save
WorkspaceSaveAlways(rs, workspace_id, is_new, first_id) ==
    rs \cup {[id |-> first_id + i - 1, workspace |-> workspace_id,
              name |-> DEFAULT_ROLES[i],
              settings |-> DEFAULT_ROLE_PERMISSIONS[DEFAULT_ROLES[i]]] : i \in 1..3}

\* Workspace.save: the roles table afterwards
WorkspaceSave(rs, workspace_id, is_new, first_id) ==
    IF is_new
    THEN rs \cup {[id |-> first_id + i - 1, workspace |-> workspace_id,
                   name |-> DEFAULT_ROLES[i],
                   settings |-> DEFAULT_ROLE_PERMISSIONS[DEFAULT_ROLES[i]]] : i \in 1..3}
    ELSE rs

----------------------------------------------------------------------------
(* tools/permissions/base.py *)

WORKSPACE_METHOD_PERMISSION_MAP(method) ==
    CASE method = "GET" -> "can_view_workspace"
      [] method = "PUT" -> "can_edit_workspace"
      [] OTHER -> NoPermission

\* lines 33-36: the capability the request needs
WorkspaceRequired(required, method) ==
    IF required # NoPermission THEN required ELSE WORKSPACE_METHOD_PERMISSION_MAP(method)

\* lines 33-44 with every capability taken as granted to a member that has a role
WorkspaceMemberDecisionGranted(rs, m, required, method) ==
    IF ~\E r \in rs : r.id = m.role THEN "error" ELSE "allow"

\* lines 33-44, for the member row found
WorkspaceMemberDecision(rs, m, required, method) ==
    IF WorkspaceRequired(required, method) = NoPermission THEN "deny"
    ELSE IF WorkspaceRequired(required, method) \in DEFAULT_ALWAYS_ALLOWED_PERMISSIONS
    THEN "allow"
    ELSE IF ~\E r \in rs : r.id = m.role THEN "error"
    ELSE IF SettingsGet((CHOOSE r \in rs : r.id = m.role).settings,
                        WorkspaceRequired(required, method))
    THEN "allow" ELSE "deny"

\* has_permission looking the membership up before it compares the owner
HasWorkspacePermissionMemberFirst(ws, rs, ms, actor, workspace_id, required, method) ==
    IF ~\E w \in ws : w.id = workspace_id THEN "deny"
    ELSE IF MemberRows(ms, workspace_id, actor) = {} THEN "deny"
    ELSE IF (CHOOSE w \in ws : w.id = workspace_id).owner = actor THEN "allow"
    ELSE IF Cardinality(MemberRows(ms, workspace_id, actor)) > 1 THEN "error"
    ELSE WorkspaceMemberDecision(rs, First(MemberRows(ms, workspace_id, actor)),
                                 required, method)

\* HasWorkspacePermission.has_permission: "allow", "deny", or "error" when it raises
HasWorkspacePermission(ws, rs, ms, actor, workspace_id, required, method) ==
    IF ~\E w \in ws : w.id = workspace_id THEN "deny"
    ELSE IF (CHOOSE w \in ws : w.id = workspace_id).owner = actor THEN "allow"
    ELSE IF MemberRows(ms, workspace_id, actor) = {} THEN "deny"
    ELSE IF Cardinality(MemberRows(ms, workspace_id, actor)) > 1 THEN "error"
    ELSE WorkspaceMemberDecision(rs, First(MemberRows(ms, workspace_id, actor)),
                                 required, method)

\* the response of a request the permission class stopped
Refusal(decision) == IF decision = "error" THEN 500 ELSE 403

----------------------------------------------------------------------------
(* Requests and their inputs *)

\* request.user: an authenticated, active account
Actors == {u.id : u \in {v \in users : v.is_active}}

WorkspaceIds == 1..MaxWorkspaces

\* (user_id, email, is_active_target) of the activate and deactivate requests
ToggleBodies ==
    {[user_id |-> i, email |-> NoEmail, target |-> t] : i \in 1..3, t \in BOOLEAN}
    \cup {[user_id |-> NoUser, email |-> "u3@x.io", target |-> FALSE],
          [user_id |-> NoUser, email |-> "new@x.io", target |-> FALSE],
          [user_id |-> NoUser, email |-> NoEmail, target |-> FALSE],
          [user_id |-> 1, email |-> "u2@x.io", target |-> FALSE]}

\* (user_id, email, new_role) of a change-role body
RoleBodies ==
    {[user_id |-> i, email |-> NoEmail, new_role |-> n] :
        i \in 1..3, n \in {"admin", "user", " Client "}}
    \cup {[user_id |-> 2, email |-> NoEmail, new_role |-> n] : n \in {"owner", "  "}}
    \cup {[user_id |-> NoUser, email |-> e, new_role |-> "user"] :
            e \in {"u3@x.io", "new@x.io", NoEmail}}
    \cup {[user_id |-> 1, email |-> "u2@x.io", new_role |-> "user"]}

\* (email, role_id, role_name) of an add-member body
AddBodies ==
    {[email |-> e, role_id |-> 0, role_name |-> n] :
        e \in {"u2@x.io", "u3@x.io"}, n \in {"admin", "user", "client"}}
    \cup {[email |-> "u1@x.io", role_id |-> 0, role_name |-> "user"]}
    \cup {[email |-> "u2@x.io", role_id |-> i, role_name |-> ""] : i \in {0, 2, 5}}
    \cup {[email |-> "u2@x.io", role_id |-> 0, role_name |-> "owner"],
          [email |-> NoEmail, role_id |-> 0, role_name |-> "user"]}

\* add-member bodies sent at the same time, one address being without account
RaceBodies ==
    {[email |-> e, role_id |-> 0, role_name |-> n] :
        e \in {"u2@x.io", "new@x.io"}, n \in {"admin", "user"}}
    \cup {[email |-> "u1@x.io", role_id |-> 0, role_name |-> "user"]}

\* the toggles sent while add-member requests are in flight
RaceToggles == {[user_id |-> 2, email |-> NoEmail, target |-> FALSE]}

\* the addresses of concurrent project add-member requests
RaceEmails == {"u1@x.io", "u2@x.io"}

\* who creates the workspaces where the other requests are the subject
Creators == {1}

\* primary keys of the roles
RoleIds == 1..(3 * MaxWorkspaces)

AdminRoleBodies ==
    {[user_id |-> i, email |-> NoEmail, new_role |-> n] :
        i \in 1..3, n \in {"admin", "user", " Client "}}
    \cup {[user_id |-> NoUser, email |-> "u1@x.io", new_role |-> "user"],
          [user_id |-> 1, email |-> NoEmail, new_role |-> "owner"]}

\* the two users that send the project requests
ProjectActors == {1, 2}

\* owner-change bodies with exactly one identifier: a user id, an address
\* without account, or a membership id (the last one is never assigned)
TransferIdents ==
    {[new_owner_id |-> i, new_owner_email |-> NoEmail, new_member_id |-> 0] : i \in 1..3}
    \cup {[new_owner_id |-> NoUser, new_owner_email |-> "new@x.io", new_member_id |-> 0]}
    \cup {[new_owner_id |-> NoUser, new_owner_email |-> NoEmail, new_member_id |-> i] :
            i \in 1..(MaxMembers + 1)}

ProjectTransferIdents ==
    {[new_owner_id |-> i, new_owner_email |-> NoEmail, new_member_id |-> 0] : i \in 1..3}
    \cup {[new_owner_id |-> NoUser, new_owner_email |-> "new@x.io", new_member_id |-> 0]}
    \cup {[new_owner_id |-> NoUser, new_owner_email |-> NoEmail, new_member_id |-> i] :
            i \in 1..(MaxProjectMembers + 1)}

\* the members added before ownership is transferred
TransferAddBodies ==
    {[email |-> "u2@x.io", role_id |-> 0, role_name |-> n] : n \in {"admin", "user"}}
    \cup {[email |-> "u3@x.io", role_id |-> 0, role_name |-> "client"]}

\* new_role as sent; the view applies strip().lower()
StripLower(s) ==
    CASE s = " Client " -> "client"
      [] s = "  " -> ""
      [] OTHER -> s

\* sum(bool(x) for x in provided)
Provided(values) == Cardinality({i \in DOMAIN values : values[i]})

\* the log keeps the requests that were carried out, that failed in the
\* server or that a view answered 403, not the ones answered 400
Logged(response) == IF response.status \in {200, 201, 403, 500} THEN response ELSE last

\* ... and not the ones the permission class denied
Answer(decision, response) == IF decision = "deny" THEN last ELSE Logged(response)

Idle == [workspace |-> 0, project |-> 0, email |-> NoEmail, user |-> NoUser,
         role |-> NoRole]

Workspace(id) == CHOOSE w \in workspaces : w.id = id

Exists(id) == \E w \in workspaces : w.id = id

----------------------------------------------------------------------------
(* workspace/views.py *)

RbacInit ==
    /\ users = {[id |-> i, email |-> <<"u1@x.io", "u2@x.io", "u3@x.io">>[i], is_active |-> TRUE] : i \in 1..3}
    /\ workspaces = {}
    /\ roles = {}
    /\ members = {}
    /\ projects = {}
    /\ pmembers = {}
    /\ seq = [user |-> 3, workspace |-> 0, role |-> 0, member |-> 0,
              project |-> 0, pmember |-> 0, admin |-> 0]
    /\ pending = [s \in 1..MaxInFlight |-> Idle]
    /\ refused = {}
    /\ last = [op |-> "none", status |-> 0]

\* WorkspaceCreateAPIView.perform_create
CreateWorkspace(actor) ==
    /\ seq.workspace < MaxWorkspaces
    /\ Cardinality(members) < MaxMembers
    /\ LET id == seq.workspace + 1
           saved == WorkspaceSave(roles, id, TRUE, seq.role + 1)
           admin_role == RoleByName(saved, id, "admin")
       IN /\ workspaces' = workspaces \cup {[id |-> id, owner |-> actor]}
          /\ roles' = saved
          /\ IF admin_role = {}
             THEN /\ members' = members
                  /\ last' = Logged([op |-> "create", status |-> 500, actor |-> actor,
                              workspace |-> id])
             ELSE /\ members' = members \cup
                        {[id |-> seq.member + 1, user |-> actor, workspace |-> id,
                          role |-> First(admin_role).id, is_active |-> TRUE]}
                  /\ last' = Logged([op |-> "create", status |-> 201, actor |-> actor,
                              workspace |-> id])
          /\ seq' = [seq EXCEPT !.workspace = id,
                                !.role = @ + Cardinality(saved) - Cardinality(roles),
                                !.member = IF admin_role = {} THEN @ ELSE @ + 1]
    /\ UNCHANGED <<users, pending, refused>>
    /\ UNCHANGED projVars
    /\ UNCHANGED codeVars

\* WorkspaceDetailAPIView.put
UpdateWorkspace(actor, workspace_id) ==
    LET decision == HasWorkspacePermission(workspaces, roles, members, actor,
                                           workspace_id, NoPermission, "PUT")
        saved == WorkspaceSave(roles, workspace_id, FALSE, seq.role + 1)
    IN /\ Exists(workspace_id)
       /\ IF decision # "allow"
          THEN /\ last' = Answer(decision, [op |-> "update", status |-> Refusal(decision),
                           actor |-> actor, workspace |-> workspace_id])
               /\ UNCHANGED <<roles, seq>>
          ELSE /\ roles' = saved
               /\ seq' = [seq EXCEPT !.role = @ + Cardinality(saved) - Cardinality(roles)]
               /\ last' = Logged([op |-> "update", status |-> 200,
                           actor |-> actor, workspace |-> workspace_id])
       /\ UNCHANGED <<users, workspaces, members, pending, refused>>
       /\ UNCHANGED projVars
       /\ UNCHANGED codeVars

\* AddWorkspaceMemberAPIView.post, lines 89-138: the role the body names
AddMemberRole(workspace_id, choice) ==
    IF choice.role_id # 0 THEN RoleById(roles, workspace_id, choice.role_id)
    ELSE IF choice.role_name # "" THEN RoleByName(roles, workspace_id, choice.role_name)
    ELSE {}

\* AddWorkspaceMemberAPIView.post, lines 89-138: the response when the body is refused
AddMemberRefused(workspace_id, email, choice) ==
    \/ ~Exists(workspace_id)
    \/ email = NoEmail
    \/ /\ UserByEmail(users, email) # {}
       /\ \E m \in MembersOf(members, workspace_id) :
            m.user = First(UserByEmail(users, email)).id
    \/ AddMemberRole(workspace_id, choice) = {}

\* AddWorkspaceMemberAPIView.post, lines 105-138: the row the serializer is asked for
AddMemberRequest(workspace_id, email, choice) ==
    [workspace |-> workspace_id, project |-> 0, email |-> email,
     user |-> IF UserByEmail(users, email) = {} THEN NoUser
              ELSE First(UserByEmail(users, email)).id,
     role |-> First(AddMemberRole(workspace_id, choice)).id]

\* the user of the new row: the one found, or the account created for the address
InsertUser(req) == IF req.user = NoUser THEN seq.user + 1 ELSE req.user

\* the INSERTs of serializer.save raise IntegrityError
InsertRefused(req) ==
    \/ req.user = NoUser /\ UserByEmail(users, req.email) # {}
    \/ UniqueViolation(members, InsertUser(req), req.workspace)
    \/ ~\E r \in roles : r.id = req.role

\* CreateWorkspaceMemberSerializer.create for an address without account:
\* a placeholder inactive user
PlaceholderUser(id, email) == [id |-> id, email |-> email, is_active |-> FALSE]

\* AddWorkspaceMemberAPIView.post, lines 140-148: serializer.save inserts the row
InsertMember(req) ==
    /\ users' = IF req.user = NoUser
                THEN users \cup {PlaceholderUser(InsertUser(req), req.email)}
                ELSE users
    /\ members' = members \cup
            {[id |-> seq.member + 1, user |-> InsertUser(req), workspace |-> req.workspace,
              role |-> req.role, is_active |-> TRUE]}
    /\ seq' = [seq EXCEPT !.member = @ + 1,
                          !.user = IF req.user = NoUser THEN @ + 1 ELSE @]

\* AddWorkspaceMemberAPIView.post: the status of the response
AddMemberStatus(actor, workspace_id, email, choice) ==
    LET decision == HasWorkspacePermission(workspaces, roles, members, actor,
                                           workspace_id, "can_invite_users", "POST")
    IN IF decision # "allow" THEN Refusal(decision)
       ELSE IF AddMemberRefused(workspace_id, email, choice) THEN 400
       ELSE IF InsertRefused(AddMemberRequest(workspace_id, email, choice)) THEN 500
       ELSE 201

\* AddWorkspaceMemberAPIView.post, run without interruption
AddWorkspaceMember(actor, workspace_id, email, choice) ==
    /\ AddMemberStatus(actor, workspace_id, email, choice) = 201
            => Cardinality(members) < MaxMembers
    /\ IF AddMemberStatus(actor, workspace_id, email, choice) = 201
       THEN InsertMember(AddMemberRequest(workspace_id, email, choice))
       ELSE UNCHANGED <<users, members, seq>>
    /\ last' = Answer(HasWorkspacePermission(workspaces, roles, members, actor,
                                             workspace_id, "can_invite_users", "POST"),
                      [op |-> "add_member",
                       status |-> AddMemberStatus(actor, workspace_id, email, choice),
                       actor |-> actor, workspace |-> workspace_id, email |-> email])
    /\ UNCHANGED <<workspaces, roles, pending, refused>>
    /\ UNCHANGED projVars
    /\ UNCHANGED codeVars

FreeSlots == {s \in 1..MaxInFlight : pending[s] = Idle}

FreeSlot == CHOOSE s \in FreeSlots : \A t \in FreeSlots : s <= t

\* lines 105-115: the rows that make the user "already a member"
AddMemberDuplicate(workspace_id, email) ==
    IF Exists(workspace_id) /\ email # NoEmail /\ UserByEmail(users, email) # {}
    THEN MemberRows(members, workspace_id, First(UserByEmail(users, email)).id)
    ELSE {}

\* one more kind of refused duplicate: the table, where it was refused, and
\* whether the row in the way was active
Refused(table, at, rows) ==
    refused \cup {[table |-> table, at |-> at, active |-> r.is_active] : r \in rows}

\* AddWorkspaceMemberAPIView.post up to line 138, on the rows read at lines
\* 89-105; the insert follows in AddMemberCommit
AddMemberBegin(actor, workspace_id, email, choice) ==
    LET decision == HasWorkspacePermission(workspaces, roles, members, actor,
                                           workspace_id, "can_invite_users", "POST")
    IN /\ decision = "allow"
       /\ IF AddMemberRefused(workspace_id, email, choice)
          THEN /\ refused' = Refused("workspace", "view",
                                     AddMemberDuplicate(workspace_id, email))
               /\ UNCHANGED pending
          ELSE /\ FreeSlots # {}
               /\ Cardinality(members) < MaxMembers
               /\ pending' = [pending EXCEPT ![FreeSlot] =
                                AddMemberRequest(workspace_id, email, choice)]
               /\ UNCHANGED refused
       /\ UNCHANGED <<users, workspaces, roles, members, seq, last>>
       /\ UNCHANGED projVars
       /\ UNCHANGED codeVars

\* AddWorkspaceMemberAPIView.post, lines 140-148, of a request begun earlier
AddMemberCommit(slot) ==
    /\ pending[slot].workspace # 0
    /\ pending' = [pending EXCEPT ![slot] = Idle]
    /\ IF InsertRefused(pending[slot])
       THEN /\ UNCHANGED <<users, members, seq>>
            /\ refused' = Refused("workspace", "insert",
                    MemberRows(members, pending[slot].workspace, pending[slot].user))
       ELSE /\ Cardinality({<<m.user, m.workspace>> : m \in members}
                    \cup {<<InsertUser(pending[slot]), pending[slot].workspace>>})
                    <= MaxMembers
            /\ InsertMember(pending[slot])
            /\ UNCHANGED refused
    /\ last' = Logged([op |-> "add_member",
                       status |-> IF InsertRefused(pending[slot]) THEN 500 ELSE 201,
                       actor |-> NoUser, workspace |-> pending[slot].workspace,
                       email |-> pending[slot].email])
    /\ UNCHANGED <<workspaces, roles>>
    /\ UNCHANGED projVars
    /\ UNCHANGED codeVars

\* lines 226 and 357-360: the user the body names
TargetUser(ident) ==
    IF ident.user_id # NoUser THEN UserById(users, ident.user_id)
    ELSE UserByEmail(users, ident.email)

\* the status of the response when a member already in the target state is saved again
ToggleStatusRepeat(workspace_id, ident, is_active_target) ==
    IF ~Exists(workspace_id) THEN 400
    ELSE IF Provided(<<ident.user_id # NoUser, ident.email # NoEmail>>) # 1 THEN 400
    ELSE IF TargetUser(ident) = {} THEN 400
    ELSE IF MemberRows(members, workspace_id, First(TargetUser(ident)).id) = {} THEN 400
    ELSE 200

\* BaseToggleWorkspaceMemberAPIView.patch: the status of the response
ToggleStatus(workspace_id, ident, is_active_target) ==
    IF ~Exists(workspace_id) THEN 400
    ELSE IF Provided(<<ident.user_id # NoUser, ident.email # NoEmail>>) # 1 THEN 400
    ELSE IF TargetUser(ident) = {} THEN 400
    ELSE IF MemberRows(members, workspace_id, First(TargetUser(ident)).id) = {} THEN 400
    ELSE IF First(MemberRows(members, workspace_id,
                             First(TargetUser(ident)).id)).is_active = is_active_target
    THEN 400
    ELSE 200

\* BaseToggleWorkspaceMemberAPIView: the response, the permission class included
ToggleResponse(actor, workspace_id, ident, is_active_target) ==
    LET decision == HasWorkspacePermission(workspaces, roles, members, actor,
                                           workspace_id, "can_invite_users", "PATCH")
    IN IF decision # "allow" THEN Refusal(decision)
       ELSE ToggleStatus(workspace_id, ident, is_active_target)

\* BaseToggleWorkspaceMemberAPIView.patch (Activate- and DeactivateWorkspaceMemberAPIView)
ToggleWorkspaceMember(actor, workspace_id, ident, is_active_target) ==
    LET decision == HasWorkspacePermission(workspaces, roles, members, actor,
                                           workspace_id, "can_invite_users", "PATCH")
        status == ToggleResponse(actor, workspace_id, ident, is_active_target)
        target == IF TargetUser(ident) = {} THEN NoUser ELSE First(TargetUser(ident)).id
    IN /\ IF status = 200
          THEN LET row == First(MemberRows(members, workspace_id, target))
               IN members' = UpdateRow(members, row,
                                       [row EXCEPT !.is_active = is_active_target])
          ELSE members' = members
       /\ last' = Answer(decision,
                  [op |-> IF is_active_target THEN "activate" ELSE "deactivate",
                   status |-> status, actor |-> actor, workspace |-> workspace_id,
                   target |-> target])
       /\ UNCHANGED <<users, workspaces, roles, seq, pending, refused>>
       /\ UNCHANGED projVars
       /\ UNCHANGED codeVars

\* lines 382-387 without the ownership test
AdminGuardOff(workspace_id, actor, row) == FALSE

\* ChangeWorkspaceRoleAPIView.patch, lines 382-387: only the owner changes an admin's role
AdminGuard(workspace_id, actor, row) ==
    RoleName(roles, row) = "admin" /\ Workspace(workspace_id).owner # actor

\* ChangeWorkspaceRoleAPIView.patch: the status of the response
ChangeRoleStatus(actor, workspace_id, ident, new_role) ==
    IF ~Exists(workspace_id) THEN 400
    ELSE IF Provided(<<ident.user_id # NoUser, ident.email # NoEmail>>) # 1 THEN 400
    ELSE IF StripLower(new_role) = "" THEN 400
    ELSE IF RoleByName(roles, workspace_id, StripLower(new_role)) = {} THEN 400
    ELSE IF TargetUser(ident) = {} THEN 400
    ELSE IF MemberRows(members, workspace_id, First(TargetUser(ident)).id) = {} THEN 400
    ELSE IF ~First(MemberRows(members, workspace_id,
                              First(TargetUser(ident)).id)).is_active THEN 400
    ELSE IF First(MemberRows(members, workspace_id,
                             First(TargetUser(ident)).id)).role = NoRole THEN 500
    ELSE IF AdminGuard(workspace_id, actor,
                       First(MemberRows(members, workspace_id,
                                        First(TargetUser(ident)).id))) THEN 403
    ELSE 200

\* ChangeWorkspaceRoleAPIView: the response, the permission class included
ChangeRoleResponse(actor, workspace_id, ident, new_role) ==
    LET decision == HasWorkspacePermission(workspaces, roles, members, actor,
                                           workspace_id, "can_change_roles", "PATCH")
    IN IF decision # "allow" THEN Refusal(decision)
       ELSE ChangeRoleStatus(actor, workspace_id, ident, new_role)

\* ChangeWorkspaceRoleAPIView.patch
ChangeWorkspaceRole(actor, workspace_id, ident, new_role) ==
    LET decision == HasWorkspacePermission(workspaces, roles, members, actor,
                                           workspace_id, "can_change_roles", "PATCH")
        status == ChangeRoleResponse(actor, workspace_id, ident, new_role)
        target == IF TargetUser(ident) = {} THEN NoUser ELSE First(TargetUser(ident)).id
    IN /\ IF status = 200
          THEN LET row == First(MemberRows(members, workspace_id, target))
               IN members' = UpdateRow(members, row,
                    [row EXCEPT !.role =
                        First(RoleByName(roles, workspace_id, StripLower(new_role))).id])
          ELSE members' = members
       /\ last' = Answer(decision,
                  [op |-> "change_role", status |-> status, actor |-> actor,
                   workspace |-> workspace_id, target |-> target])
       /\ UNCHANGED <<users, workspaces, roles, seq, pending, refused>>
       /\ UNCHANGED projVars
       /\ UNCHANGED codeVars

\* get_user_and_member giving a user without membership a row of their own
get_user_and_member_created(workspace_id, ident) ==
    IF ident.new_member_id # 0
    THEN {m \in members : m.id = ident.new_member_id /\ m.workspace = workspace_id}
    ELSE LET found == IF ident.new_owner_email # NoEmail
                      THEN UserByEmail(users, ident.new_owner_email)
                      ELSE UserById(users, ident.new_owner_id)
         IN IF found = {} THEN {}
            ELSE IF MemberRows(members, workspace_id, First(found).id) = {}
            THEN {[id |-> seq.member + 1, user |-> First(found).id,
                   workspace |-> workspace_id, role |-> NoRole, is_active |-> TRUE]}
            ELSE {First(MemberRows(members, workspace_id, First(found).id))}

\* WorkspaceOwnerChangeAPIView.get_user_and_member: the member row, {} on an error
get_user_and_member(workspace_id, ident) ==
    IF ident.new_member_id # 0
    THEN {m \in members : m.id = ident.new_member_id /\ m.workspace = workspace_id}
    ELSE LET found == IF ident.new_owner_email # NoEmail
                      THEN UserByEmail(users, ident.new_owner_email)
                      ELSE UserById(users, ident.new_owner_id)
         IN IF found = {} THEN {}
            ELSE IF MemberRows(members, workspace_id, First(found).id) = {} THEN {}
            ELSE {First(MemberRows(members, workspace_id, First(found).id))}

\* WorkspaceOwnerChangeAPIView.post: the status of the response
OwnerChangeStatus(workspace_id, ident) ==
    IF ~Exists(workspace_id) THEN 400
    ELSE IF Provided(<<ident.new_owner_id # NoUser, ident.new_owner_email # NoEmail,
                       ident.new_member_id # 0>>) # 1 THEN 400
    ELSE IF RoleByName(roles, workspace_id, "admin") = {} THEN 400
    ELSE IF Cardinality(RoleByName(roles, workspace_id, "admin")) > 1 THEN 500
    ELSE IF get_user_and_member(workspace_id, ident) = {} THEN 400
    ELSE 200

\* WorkspaceOwnerChangeAPIView: the response, the permission class included
OwnerChangeResponse(actor, workspace_id, ident) ==
    LET decision == HasWorkspacePermission(workspaces, roles, members, actor,
                                           workspace_id, "owner_member", "POST")
    IN IF decision # "allow" THEN Refusal(decision)
       ELSE OwnerChangeStatus(workspace_id, ident)

\* the transfer leaving the role of the new owner as it was
OwnerChangeMemberKept(row, admin_role) == row

\* WorkspaceOwnerChangeAPIView.post, lines 557-558: member.role = admin_role
OwnerChangeMember(row, admin_role) == [row EXCEPT !.role = admin_role.id]

\* WorkspaceOwnerChangeAPIView.post
WorkspaceOwnerChange(actor, workspace_id, ident) ==
    LET status == OwnerChangeResponse(actor, workspace_id, ident)
        saved == WorkspaceSave(roles, workspace_id, FALSE, seq.role + 1)
    IN /\ IF status = 200
          THEN LET row == First(get_user_and_member(workspace_id, ident))
                   admin_role == First(RoleByName(roles, workspace_id, "admin"))
               IN /\ members' = UpdateRow(members, row, OwnerChangeMember(row, admin_role))
                  /\ workspaces' = UpdateRow(workspaces, Workspace(workspace_id),
                        [Workspace(workspace_id) EXCEPT !.owner = row.user])
                  /\ roles' = saved
                  /\ seq' = [seq EXCEPT !.role = @ + Cardinality(saved) - Cardinality(roles)]
                  /\ last' = Logged([op |-> "change_owner", status |-> status, actor |-> actor,
                              workspace |-> workspace_id, target |-> row.user,
                              was |-> RoleName(roles, row)])
          ELSE /\ UNCHANGED <<members, workspaces, roles, seq>>
               /\ last' = [op |-> "change_owner", status |-> status,
                           actor |-> actor, workspace |-> workspace_id,
                           target |-> NoUser]
       /\ UNCHANGED <<users, pending, refused>>
       /\ UNCHANGED projVars
       /\ UNCHANGED codeVars

\* WorkspaceOwnerChangeAPIView.post up to line 558: member.save has written the
\* role; the request keeps the user it names and the role the row had
OwnerChangePromote(actor, workspace_id, ident) ==
    /\ OwnerChangeResponse(actor, workspace_id, ident) = 200
    /\ FreeSlots # {}
    /\ LET row == First(get_user_and_member(workspace_id, ident))
           admin_role == First(RoleByName(roles, workspace_id, "admin"))
       IN /\ members' = UpdateRow(members, row, OwnerChangeMember(row, admin_role))
          /\ pending' = [pending EXCEPT ![FreeSlot] =
                            [workspace |-> workspace_id, project |-> 0,
                             email |-> NoEmail, user |-> row.user, role |-> row.role]]
    /\ UNCHANGED <<users, workspaces, roles, seq, refused, last>>
    /\ UNCHANGED projVars
    /\ UNCHANGED codeVars

\* WorkspaceOwnerChangeAPIView.post, lines 560-564, of a request begun earlier:
\* workspace.save writes the owner
OwnerChangeSave(slot) ==
    /\ pending[slot].workspace # 0
    /\ workspaces' = UpdateRow(workspaces, Workspace(pending[slot].workspace),
            [Workspace(pending[slot].workspace) EXCEPT !.owner = pending[slot].user])
    /\ pending' = [pending EXCEPT ![slot] = Idle]
    /\ last' = Logged([op |-> "change_owner", status |-> 200, actor |-> NoUser,
                       workspace |-> pending[slot].workspace,
                       target |-> pending[slot].user, was |-> ""])
    /\ UNCHANGED <<users, roles, members, seq, refused>>
    /\ UNCHANGED projVars
    /\ UNCHANGED codeVars

----------------------------------------------------------------------------
(* tools/permissions/base.py: HasProjectPermission *)

PROJECT_METHOD_PERMISSION_MAP(method) ==
    CASE method = "GET" -> "can_view_project"
      [] method = "PUT" -> "can_edit_project"
      [] OTHER -> NoPermission

\* lines 75-78: the capability the request needs
ProjectRequired(required, method) ==
    IF required # NoPermission THEN required ELSE PROJECT_METHOD_PERMISSION_MAP(method)

ProjectRows(ps, project_id) == {p \in ps : p.id = project_id}

ProjectMemberRows(pms, project_id, user_id) ==
    {m \in pms : m.project = project_id /\ m.user = user_id}

\* lines 68-73: the active workspace membership of the actor
ActiveMemberRows(ms, workspace_id, user_id) ==
    {m \in MemberRows(ms, workspace_id, user_id) : m.is_active}

\* lines 86-87: role.settings if role else {}
RoleSettings(rs, m) ==
    IF \E r \in rs : r.id = m.role
    THEN (CHOOSE r \in rs : r.id = m.role).settings
    ELSE [k \in {} |-> FALSE]

\* lines 75-95, for the project and the active workspace member row found
ProjectMemberDecision(rs, pms, p, m, required, method) ==
    LET needed == ProjectRequired(required, method)
        role_settings == RoleSettings(rs, m)
        is_project_member ==
            \E pm \in ProjectMemberRows(pms, p.id, m.user) : pm.is_active
    IN IF needed = NoPermission THEN "deny"
       ELSE IF needed \in DEFAULT_ALWAYS_ALLOWED_PERMISSIONS THEN "allow"
       ELSE IF needed = "can_view_project"
               /\ (is_project_member
                   \/ (p.is_public
                       /\ SettingsGet(role_settings, "can_view_public_projects")))
       THEN "allow"
       ELSE IF SettingsGet(role_settings, needed) THEN "allow" ELSE "deny"

\* HasProjectPermission.has_permission: "allow", "deny", or "error" when it raises
HasProjectPermission(ps, rs, ms, pms, actor, project_id, required, method) ==
    IF ProjectRows(ps, project_id) = {} THEN "deny"
    ELSE IF First(ProjectRows(ps, project_id)).owner = actor THEN "allow"
    ELSE IF ActiveMemberRows(ms, First(ProjectRows(ps, project_id)).workspace,
                             actor) = {} THEN "deny"
    ELSE IF Cardinality(ActiveMemberRows(ms, First(ProjectRows(ps, project_id)).workspace,
                                         actor)) > 1 THEN "error"
    ELSE ProjectMemberDecision(rs, pms, First(ProjectRows(ps, project_id)),
            First(ActiveMemberRows(ms, First(ProjectRows(ps, project_id)).workspace,
                                   actor)),
            required, method)

----------------------------------------------------------------------------
(* project/views.py *)

ProjectIds == 1..MaxProjects

Project(id) == First(ProjectRows(projects, id))

\* ProjectCreateAPIView.perform_create, with ProjectSerializer.create
CreateProject(actor, workspace_id, is_public) ==
    LET decision == HasWorkspacePermission(workspaces, roles, members, actor,
                                           workspace_id, "can_create_projects", "POST")
        id == seq.project + 1
    IN /\ IF decision # "allow"
          THEN /\ UNCHANGED <<projects, pmembers, seq>>
               /\ last' = Answer(decision, [op |-> "create_project",
                                 status |-> Refusal(decision), actor |-> actor,
                                 project |-> 0])
          ELSE /\ seq.project < MaxProjects
               /\ Cardinality(pmembers) < MaxProjectMembers
               /\ projects' = projects \cup
                        {[id |-> id, workspace |-> workspace_id, owner |-> actor,
                          is_public |-> is_public, is_active |-> TRUE]}
               /\ pmembers' = pmembers \cup
                        {[id |-> seq.pmember + 1, user |-> actor, project |-> id,
                          is_active |-> TRUE]}
               /\ seq' = [seq EXCEPT !.project = id, !.pmember = @ + 1]
               /\ last' = Logged([op |-> "create_project", status |-> 201,
                                  actor |-> actor, project |-> id])
       /\ UNCHANGED <<users, workspaces, roles, members, pending, refused>>
       /\ UNCHANGED codeVars

\* ProjectDetailAPIView.put
UpdateProject(actor, project_id, is_public) ==
    LET decision == HasProjectPermission(projects, roles, members, pmembers, actor,
                                         project_id, NoPermission, "PUT")
    IN /\ IF decision # "allow"
          THEN /\ UNCHANGED projects
               /\ last' = Answer(decision, [op |-> "update_project",
                                 status |-> Refusal(decision), actor |-> actor,
                                 project |-> project_id])
          ELSE /\ projects' = UpdateRow(projects, Project(project_id),
                                [Project(project_id) EXCEPT !.is_public = is_public])
               /\ last' = Logged([op |-> "update_project", status |-> 200,
                                  actor |-> actor, project |-> project_id])
       /\ UNCHANGED <<users, workspaces, roles, members, pmembers, seq, pending, refused>>
       /\ UNCHANGED codeVars

\* ProjectMember.Meta.unique_together = ('user', 'project')
ProjectUniqueViolation(pms, user_id, project_id) ==
    \E m \in pms : m.user = user_id /\ m.project = project_id

\* AddProjectMemberAPIView.post, lines 87-97: the rows that make the user
\* "already a member"
AddProjectMemberDuplicate(project_id, email) ==
    IF ProjectRows(projects, project_id) # {} /\ email # NoEmail
       /\ UserByEmail(users, email) # {}
    THEN ProjectMemberRows(pmembers, project_id, First(UserByEmail(users, email)).id)
    ELSE {}

\* AddProjectMemberAPIView.post, lines 71-99: the body is refused
AddProjectMemberRefused(project_id, email) ==
    \/ ProjectRows(projects, project_id) = {}
    \/ email = NoEmail
    \/ UserByEmail(users, email) = {}
    \/ AddProjectMemberDuplicate(project_id, email) # {}

\* AddProjectMemberAPIView.post, lines 101-106: the row the serializer is asked for
AddProjectMemberRequest(project_id, email) ==
    [workspace |-> 0, project |-> project_id, email |-> email,
     user |-> First(UserByEmail(users, email)).id, role |-> NoRole]

\* CreateProjectMemberSerializer.create raises IntegrityError
ProjectInsertRefused(req) ==
    \/ ProjectUniqueViolation(pmembers, req.user, req.project)
    \/ ProjectRows(projects, req.project) = {}

\* CreateProjectMemberSerializer.create
InsertProjectMember(req) ==
    /\ pmembers' = pmembers \cup
            {[id |-> seq.pmember + 1, user |-> req.user, project |-> req.project,
              is_active |-> TRUE]}
    /\ seq' = [seq EXCEPT !.pmember = @ + 1]

\* AddProjectMemberAPIView.post: the status of the response
AddProjectMemberStatus(actor, project_id, email) ==
    LET decision == HasProjectPermission(projects, roles, members, pmembers, actor,
                        project_id, "can_invite_users_to_project", "POST")
    IN IF decision # "allow" THEN Refusal(decision)
       ELSE IF AddProjectMemberRefused(project_id, email) THEN 400
       ELSE IF ProjectInsertRefused(AddProjectMemberRequest(project_id, email)) THEN 500
       ELSE 201

\* AddProjectMemberAPIView.post, run without interruption
AddProjectMember(actor, project_id, email) ==
    /\ AddProjectMemberStatus(actor, project_id, email) = 201
            => Cardinality(pmembers) < MaxProjectMembers
    /\ IF AddProjectMemberStatus(actor, project_id, email) = 201
       THEN InsertProjectMember(AddProjectMemberRequest(project_id, email))
       ELSE UNCHANGED <<pmembers, seq>>
    /\ last' = Answer(HasProjectPermission(projects, roles, members, pmembers, actor,
                            project_id, "can_invite_users_to_project", "POST"),
                      [op |-> "add_project_member",
                       status |-> AddProjectMemberStatus(actor, project_id, email),
                       actor |-> actor, project |-> project_id])
    /\ UNCHANGED <<users, workspaces, roles, members, projects, pending, refused>>
    /\ UNCHANGED codeVars

\* AddProjectMemberAPIView.post up to line 99, on the rows read at lines 71-91;
\* the insert follows in AddProjectMemberCommit
AddProjectMemberBegin(actor, project_id, email) ==
    LET decision == HasProjectPermission(projects, roles, members, pmembers, actor,
                        project_id, "can_invite_users_to_project", "POST")
    IN /\ decision = "allow"
       /\ IF AddProjectMemberRefused(project_id, email)
          THEN /\ refused' = Refused("project", "view",
                                     AddProjectMemberDuplicate(project_id, email))
               /\ UNCHANGED pending
          ELSE /\ FreeSlots # {}
               /\ Cardinality(pmembers) < MaxProjectMembers
               /\ pending' = [pending EXCEPT ![FreeSlot] =
                                AddProjectMemberRequest(project_id, email)]
               /\ UNCHANGED refused
       /\ UNCHANGED <<users, workspaces, roles, members, seq, last>>
       /\ UNCHANGED projVars
       /\ UNCHANGED codeVars

\* AddProjectMemberAPIView.post, lines 101-109, of a request begun earlier
AddProjectMemberCommit(slot) ==
    /\ pending[slot].project # 0
    /\ pending' = [pending EXCEPT ![slot] = Idle]
    /\ IF ProjectInsertRefused(pending[slot])
       THEN /\ UNCHANGED <<pmembers, seq>>
            /\ refused' = Refused("project", "insert",
                    ProjectMemberRows(pmembers, pending[slot].project, pending[slot].user))
       ELSE /\ Cardinality({<<m.user, m.project>> : m \in pmembers}
                    \cup {<<pending[slot].user, pending[slot].project>>})
                    <= MaxProjectMembers
            /\ InsertProjectMember(pending[slot])
            /\ UNCHANGED refused
    /\ last' = Logged([op |-> "add_project_member",
                       status |-> IF ProjectInsertRefused(pending[slot]) THEN 500 ELSE 201,
                       actor |-> NoUser, project |-> pending[slot].project])
    /\ UNCHANGED <<users, workspaces, roles, members, projects>>
    /\ UNCHANGED codeVars

\* BaseToggleProjectMemberAPIView.patch: the status of the response
ToggleProjectMemberStatus(project_id, ident, is_active_target) ==
    IF ProjectRows(projects, project_id) = {} THEN 500
    ELSE IF Provided(<<ident.user_id # NoUser, ident.email # NoEmail>>) # 1 THEN 400
    ELSE IF TargetUser(ident) = {} THEN 400
    ELSE IF ProjectMemberRows(pmembers, project_id, First(TargetUser(ident)).id) = {}
    THEN 400
    ELSE IF First(ProjectMemberRows(pmembers, project_id,
                                    First(TargetUser(ident)).id)).is_active
            = is_active_target
    THEN 400
    ELSE 200

\* the permission class on BaseToggleProjectMemberAPIView and on
\* BaseToggleProjectActivationAPIView: the views set required_workspace_permission,
\* which HasProjectPermission does not read, and PATCH has no entry in its map
ToggleProjectDecision(actor, project_id) ==
    HasProjectPermission(projects, roles, members, pmembers, actor,
                         project_id, NoPermission, "PATCH")

\* BaseToggleProjectMemberAPIView.patch (Activate- and DeactivateProjectMemberAPIView)
ToggleProjectMember(actor, project_id, ident, is_active_target) ==
    LET decision == ToggleProjectDecision(actor, project_id)
        status == IF decision # "allow" THEN Refusal(decision)
                  ELSE ToggleProjectMemberStatus(project_id, ident, is_active_target)
        target == IF TargetUser(ident) = {} THEN NoUser ELSE First(TargetUser(ident)).id
    IN /\ IF status = 200
          THEN LET row == First(ProjectMemberRows(pmembers, project_id, target))
               IN pmembers' = UpdateRow(pmembers, row,
                                        [row EXCEPT !.is_active = is_active_target])
          ELSE pmembers' = pmembers
       /\ last' = Answer(decision,
                  [op |-> IF is_active_target THEN "activate_project_member"
                          ELSE "deactivate_project_member",
                   status |-> status, actor |-> actor, project |-> project_id])
       /\ UNCHANGED <<users, workspaces, roles, members, projects, seq, pending, refused>>
       /\ UNCHANGED codeVars

\* BaseToggleProjectActivationAPIView.patch (Activate- and DeactivateProjectAPIView)
ToggleProject(actor, project_id, is_active_target) ==
    LET decision == ToggleProjectDecision(actor, project_id)
        status == IF decision # "allow" THEN Refusal(decision)
                  ELSE IF ProjectRows(projects, project_id) = {} THEN 500
                  ELSE IF Project(project_id).is_active = is_active_target THEN 400
                  ELSE 200
    IN /\ IF status = 200
          THEN projects' = UpdateRow(projects, Project(project_id),
                            [Project(project_id) EXCEPT !.is_active = is_active_target])
          ELSE projects' = projects
       /\ last' = Answer(decision,
                  [op |-> IF is_active_target THEN "activate_project"
                          ELSE "deactivate_project",
                   status |-> status, actor |-> actor, project |-> project_id])
       /\ UNCHANGED <<users, workspaces, roles, members, pmembers, seq, pending, refused>>
       /\ UNCHANGED codeVars

\* ChangeProjectOwnerAPIView.get_user_and_member: the member row, {} on an error
project_get_user_and_member(project_id, ident) ==
    IF ident.new_member_id # 0
    THEN {m \in pmembers : m.id = ident.new_member_id /\ m.project = project_id}
    ELSE LET found == IF ident.new_owner_email # NoEmail
                      THEN UserByEmail(users, ident.new_owner_email)
                      ELSE UserById(users, ident.new_owner_id)
         IN IF found = {} THEN {}
            ELSE IF ProjectMemberRows(pmembers, project_id, First(found).id) = {} THEN {}
            ELSE {First(ProjectMemberRows(pmembers, project_id, First(found).id))}

\* ChangeProjectOwnerAPIView.post: the status of the response
ProjectOwnerChangeStatus(project_id, ident) ==
    IF ProjectRows(projects, project_id) = {} THEN 400
    ELSE IF Provided(<<ident.new_owner_id # NoUser, ident.new_owner_email # NoEmail,
                       ident.new_member_id # 0>>) # 1 THEN 400
    ELSE IF project_get_user_and_member(project_id, ident) = {} THEN 400
    ELSE 200

\* ChangeProjectOwnerAPIView: the response, the permission class included
ProjectOwnerChangeResponse(actor, project_id, ident) ==
    LET decision == HasProjectPermission(projects, roles, members, pmembers, actor,
                        project_id, "can_change_project_owner", "POST")
    IN IF decision # "allow" THEN Refusal(decision)
       ELSE ProjectOwnerChangeStatus(project_id, ident)

\* ChangeProjectOwnerAPIView.post
ChangeProjectOwner(actor, project_id, ident) ==
    LET status == ProjectOwnerChangeResponse(actor, project_id, ident)
    IN /\ IF status = 200
          THEN LET row == First(project_get_user_and_member(project_id, ident))
               IN /\ projects' = UpdateRow(projects, Project(project_id),
                                    [Project(project_id) EXCEPT !.owner = row.user])
                  /\ last' = Logged([op |-> "change_project_owner", status |-> 200,
                                     actor |-> actor, project |-> project_id])
          ELSE /\ UNCHANGED projects
               /\ last' = [op |-> "change_project_owner", status |-> status,
                           actor |-> actor, project |-> project_id]
       /\ UNCHANGED <<users, workspaces, roles, members, pmembers, seq, pending, refused>>
       /\ UNCHANGED codeVars

----------------------------------------------------------------------------
(* workspace/admin.py: the admin site *)

\* WorkspaceRoleAdmin change form: the settings with one capability granted
GrantSetting(settings, key) ==
    [k \in DOMAIN settings \cup {key} |-> IF k = key THEN TRUE ELSE settings[k]]

\* WorkspaceRoleAdmin: a superuser saves a role with one more capability granted
AdminSaveRole(role_id, key) ==
    /\ seq.admin < MaxAdminEdits
    /\ \E r \in roles :
        /\ r.id = role_id
        /\ roles' = UpdateRow(roles, r, [r EXCEPT !.settings = GrantSetting(@, key)])
        /\ last' = [op |-> "admin_save_role", status |-> 200, workspace |-> r.workspace]
    /\ seq' = [seq EXCEPT !.admin = @ + 1]
    /\ UNCHANGED <<users, workspaces, members, pending, refused>>
    /\ UNCHANGED projVars
    /\ UNCHANGED codeVars

\* WorkspaceMember.role: on_delete=SET_NULL
SetNull(ms, role_id) ==
    {IF m.role = role_id THEN [m EXCEPT !.role = NoRole] ELSE m : m \in ms}

\* WorkspaceRoleAdmin: a superuser deletes a role
AdminDeleteRole(role_id) ==
    /\ seq.admin < MaxAdminEdits
    /\ \E r \in roles :
        /\ r.id = role_id
        /\ roles' = roles \ {r}
        /\ last' = [op |-> "admin_delete_role", status |-> 200, workspace |-> r.workspace]
    /\ members' = SetNull(members, role_id)
    /\ seq' = [seq EXCEPT !.admin = @ + 1]
    /\ UNCHANGED <<users, workspaces, pending, refused>>
    /\ UNCHANGED projVars
    /\ UNCHANGED codeVars

Next ==
    \/ \E a \in Actors : CreateWorkspace(a)
    \/ \E a \in Actors, w \in WorkspaceIds : UpdateWorkspace(a, w)
    \/ \E a \in Actors, w \in WorkspaceIds, b \in AddBodies :
            AddWorkspaceMember(a, w, b.email, b)
    \/ \E a \in Actors, w \in WorkspaceIds, b \in ToggleBodies :
            ToggleWorkspaceMember(a, w, b, b.target)
    \/ \E a \in Actors, w \in WorkspaceIds, b \in RoleBodies :
            ChangeWorkspaceRole(a, w, b, b.new_role)
    \/ \E a \in Actors, w \in WorkspaceIds, i \in
           ({[new_owner_id |-> i, new_owner_email |-> NoEmail, new_member_id |-> 0] : i \in 1..3}
            \cup {[new_owner_id |-> NoUser, new_owner_email |-> e, new_member_id |-> 0] :
                    e \in {"u3@x.io", "new@x.io"}}
            \cup {[new_owner_id |-> NoUser, new_owner_email |-> NoEmail, new_member_id |-> i] :
                    i \in 1..MaxMembers}
            \cup {[new_owner_id |-> NoUser, new_owner_email |-> NoEmail, new_member_id |-> 0],
                  [new_owner_id |-> 2, new_owner_email |-> NoEmail, new_member_id |-> 2]}) :
            WorkspaceOwnerChange(a, w, i)

Init == CodeInit /\ RbacInit

Spec == Init /\ [][Next]_vars

\* concurrent add-member requests, for workspaces and for projects
RaceNext ==
    \/ \E a \in Creators : CreateWorkspace(a)
    \/ \E a \in Actors, w \in WorkspaceIds, b \in RaceBodies :
            AddMemberBegin(a, w, b.email, b)
    \/ \E s \in 1..MaxInFlight : AddMemberCommit(s)
    \/ \E a \in Actors, w \in WorkspaceIds, b \in RaceToggles :
            ToggleWorkspaceMember(a, w, b, b.target)
    \/ \E a \in Actors, w \in WorkspaceIds : CreateProject(a, w, TRUE)
    \/ \E a \in Actors, p \in ProjectIds, e \in RaceEmails :
            AddProjectMemberBegin(a, p, e)
    \/ \E s \in 1..MaxInFlight : AddProjectMemberCommit(s)
    \/ \E a \in Actors, p \in ProjectIds, b \in RaceToggles :
            ToggleProjectMember(a, p, b, b.target)

SpecRace == Init /\ [][RaceNext]_vars

\* the workspace endpoints, with the roles edited through the admin site
AdminNext ==
    \/ \E a \in Creators : CreateWorkspace(a)
    \/ \E a \in Actors, w \in WorkspaceIds, b \in
           ({[email |-> e, role_id |-> 0, role_name |-> n] :
                e \in {"u2@x.io", "u3@x.io"}, n \in {"admin", "user"}}) :
            AddWorkspaceMember(a, w, b.email, b)
    \/ \E a \in Actors, w \in WorkspaceIds, b \in
           ({[user_id |-> i, email |-> NoEmail, target |-> t] : i \in 1..3, t \in BOOLEAN}) :
            ToggleWorkspaceMember(a, w, b, b.target)
    \/ \E a \in Actors, w \in WorkspaceIds, b \in AdminRoleBodies :
            ChangeWorkspaceRole(a, w, b, b.new_role)
    \/ \E r \in RoleIds, k \in {"can_change_roles"} : AdminSaveRole(r, k)
    \/ \E r \in RoleIds : AdminDeleteRole(r)

SpecAdmin == Init /\ [][AdminNext]_vars

\* the project endpoints, over workspaces whose members, roles and owner change
ProjectNext ==
    \/ \E a \in Creators : CreateWorkspace(a)
    \/ \E a \in ProjectActors, w \in WorkspaceIds, b \in
           ({[email |-> "u2@x.io", role_id |-> 0, role_name |-> n] :
                n \in {"admin", "user", "client"}}) :
            AddWorkspaceMember(a, w, b.email, b)
    \/ \E a \in ProjectActors, w \in WorkspaceIds, b \in
           ({[user_id |-> 2, email |-> NoEmail, target |-> t] : t \in BOOLEAN}
            \cup {[user_id |-> 1, email |-> NoEmail, target |-> FALSE]}) :
            ToggleWorkspaceMember(a, w, b, b.target)
    \/ \E r \in ({3 * (w - 1) + 1 : w \in WorkspaceIds}) : AdminDeleteRole(r)
    \/ \E a \in Creators, w \in WorkspaceIds, b \in BOOLEAN : CreateProject(a, w, b)
    \/ \E a \in ProjectActors, p \in ProjectIds, b \in BOOLEAN : UpdateProject(a, p, b)
    \/ \E a \in ProjectActors, p \in ProjectIds, e \in
           ({"u1@x.io", "u2@x.io", "new@x.io", NoEmail}) :
            AddProjectMember(a, p, e)
    \/ \E a \in ProjectActors, p \in ProjectIds, b \in
           ({[user_id |-> i, email |-> NoEmail, target |-> t] : i \in 1..2, t \in BOOLEAN}
            \cup {[user_id |-> NoUser, email |-> "u3@x.io", target |-> FALSE]}) :
            ToggleProjectMember(a, p, b, b.target)
    \/ \E a \in ProjectActors, p \in ProjectIds, b \in BOOLEAN : ToggleProject(a, p, b)
    \/ \E a \in ProjectActors, p \in ProjectIds, i \in
           ({[new_owner_id |-> i, new_owner_email |-> NoEmail, new_member_id |-> 0] : i \in 1..3}
            \cup {[new_owner_id |-> NoUser, new_owner_email |-> NoEmail, new_member_id |-> 2],
                  [new_owner_id |-> NoUser, new_owner_email |-> NoEmail, new_member_id |-> 0]}) :
            ChangeProjectOwner(a, p, i)

SpecProject == Init /\ [][ProjectNext]_vars

\* ownership transfers of workspaces and projects, by owners and by others
TransferNext ==
    \/ \E a \in Creators : CreateWorkspace(a)
    \/ \E a \in Actors, w \in WorkspaceIds, b \in TransferAddBodies :
            AddWorkspaceMember(a, w, b.email, b)
    \/ \E a \in Actors, w \in WorkspaceIds, b \in RaceToggles :
            ToggleWorkspaceMember(a, w, b, b.target)
    \/ \E a \in Actors, w \in WorkspaceIds, i \in TransferIdents :
            WorkspaceOwnerChange(a, w, i)
    \/ \E a \in Actors, w \in WorkspaceIds : CreateProject(a, w, FALSE)
    \/ \E a \in Actors, p \in ProjectIds, e \in
           ({"u2@x.io", "u3@x.io"}) : AddProjectMember(a, p, e)
    \/ \E a \in Actors, p \in ProjectIds, i \in ProjectTransferIdents :
            ChangeProjectOwner(a, p, i)

SpecTransfer == Init /\ [][TransferNext]_vars

\* owner changes whose two saves other requests can come between
OwnerRaceNext ==
    \/ \E a \in Creators : CreateWorkspace(a)
    \/ \E a \in Actors, w \in WorkspaceIds, b \in TransferAddBodies :
            AddWorkspaceMember(a, w, b.email, b)
    \/ \E a \in Actors, w \in WorkspaceIds, b \in RaceToggles :
            ToggleWorkspaceMember(a, w, b, b.target)
    \/ \E a \in Actors, w \in WorkspaceIds, i \in TransferIdents :
            OwnerChangePromote(a, w, i)
    \/ \E s \in 1..MaxInFlight : OwnerChangeSave(s)

SpecOwnerRace == Init /\ [][OwnerRaceNext]_vars

----------------------------------------------------------------------------
(* accounts/serializers.py, accounts/views.py: the password reset endpoints *)

\* PasswordResetCheckSerializer.validate: the field in error, "" when valid
reset_validate(email, code) ==
    IF UserByEmail(users, email) = {} THEN "email"
    ELSE IF ~peek_code_result(cache, now, First(UserByEmail(users, email)).id, code)
    THEN "code"
    ELSE ""

\* PasswordResetCheckAPIView.post
PasswordResetCheck(email, code) ==
    /\ codeLast' = [op |-> "check", email |-> email, code |-> code,
                    status |-> IF reset_validate(email, code) = "" THEN 200 ELSE 400]
    /\ UNCHANGED <<cache, now, issue, grant>>
    /\ UNCHANGED flight
    /\ UNCHANGED rbacVars

\* PasswordResetConfirmAPIView.post: verify_code is called when the serializer,
\* which has called peek_code, is valid; 200 when the password is saved
PasswordResetConfirm(email, code) ==
    LET field == reset_validate(email, code)
        user_id == IF field = "email" THEN NoUser ELSE First(UserByEmail(users, email)).id
        saved == field = "" /\ verify_code_result(cache, now, user_id, code)
    IN /\ user_id \in CodeUsers
       /\ field = "" => issue[user_id].calls < MaxCalls
       /\ cache' = IF field = "" THEN verify_code_cache(cache, now, user_id, code)
                   ELSE cache
       /\ issue' = [issue EXCEPT
               ![user_id].calls = IF field = "" THEN @ + 1 ELSE @,
               ![user_id].hits = IF saved THEN @ + 1 ELSE @,
               ![user_id].wrong = IF code # issue[user_id].code
                                  THEN Min(@ + 1, MAX_ATTEMPTS) ELSE 0]
       /\ codeLast' = [op |-> "confirm", user |-> user_id, code |-> code,
                       status |-> IF saved THEN 200 ELSE 400,
                       wrong |-> issue[user_id].wrong]
       /\ UNCHANGED <<now, grant>>
       /\ UNCHANGED flight
       /\ UNCHANGED rbacVars

\* a code is issued, then checked and confirmed through the endpoints
ResetNext ==
    \/ \E u \in CodeUsers, c \in Codes : StoreCode(u, c)
    \/ \E e \in {"u1@x.io", "new@x.io"}, c \in Codes : PasswordResetCheck(e, c)
    \/ \E e \in {"u1@x.io"}, c \in Codes : PasswordResetConfirm(e, c)
    \/ \E d \in {CODE_TTL \div 2} : Tick(d)

SpecReset == Init /\ [][ResetNext]_vars

\* verify_code and store_code calls of several workers, one cache operation at a time
VerifyRaceNext ==
    \/ \E s \in 1..MaxInFlight, u \in CodeUsers, c \in Codes : StoreSet(s, u, c)
    \/ \E s \in 1..MaxInFlight : StoreClear(s)
    \/ \E s \in 1..MaxInFlight, u \in CodeUsers, c \in Codes : VerifyGet(s, u, c)
    \/ \E s \in 1..MaxInFlight : VerifyCount(s)
    \/ \E s \in 1..MaxInFlight : VerifyRead(s)
    \/ \E s \in 1..MaxInFlight : VerifyDelete(s)

SpecVerifyRace == Init /\ [][VerifyRaceNext]_vars

ThrottleNext ==
    \/ \E e \in Emails : CanSend(e)
    \/ \E d \in {THROTTLE_TTL \div 2} : Tick(d)

SpecThrottle == Init /\ [][ThrottleNext]_vars

CodeNext ==
    \/ \E u \in CodeUsers, c \in Codes : StoreCode(u, c)
    \/ \E u \in CodeUsers, c \in Codes : VerifyCode(u, c)
    \/ \E u \in CodeUsers, c \in Codes : PeekCode(u, c)
    \/ \E d \in {CODE_TTL \div 2} : Tick(d)

SpecCode == Init /\ [][CodeNext]_vars

----------------------------------------------------------------------------
(* Properties of the code store *)

\* the last call was verify with the code stored last
VerifyOfIssued ==
    /\ codeLast.op = "verify"
    /\ issue[codeLast.user].code # NoCode
    /\ codeLast.code = issue[codeLast.user].code

\* ... and no earlier verify since the store carried that code
FirstVerifyOfIssued == VerifyOfIssued /\ codeLast.lead = codeLast.nth - 1

\* the code stored last has not reached its expiry
Unexpired(u) == now < issue[u].at + CODE_TTL

\* C4 as stated: after store(u, c) the first verify(u, c) within the attempt
\* cap returns true and every later verify(u, c) returns false.
OneTimeUseAnyTime ==
    /\ (FirstVerifyOfIssued /\ codeLast.nth <= MAX_ATTEMPTS) => codeLast.result
    /\ (VerifyOfIssued /\ ~FirstVerifyOfIssued) => ~codeLast.result

\* C4 amended: after store(u, c) the first verify(u, c) made within the attempt
\* cap and less than CODE_TTL seconds after the store returns true; every later
\* verify(u, c) returns false, and at most one verify succeeds per store.
OneTimeUse ==
    /\ (FirstVerifyOfIssued /\ codeLast.nth <= MAX_ATTEMPTS /\ Unexpired(codeLast.user))
            => codeLast.result
    /\ (VerifyOfIssued /\ ~FirstVerifyOfIssued) => ~codeLast.result
    /\ \A u \in CodeUsers : issue[u].hits <= 1

\* a second verify of the stored code, refused after the first one succeeded
OneTimeUseWitness ==
    /\ VerifyOfIssued
    /\ codeLast.won = 1
    /\ ~codeLast.result
    /\ Unexpired(codeLast.user)

\* C5: after store(u, c) and 5 consecutive verify calls with codes other than
\* c, every further verify for u returns false until the next store.
Lockout ==
    (codeLast.op = "verify"
        /\ issue[codeLast.user].code # NoCode
        /\ codeLast.lead >= MAX_ATTEMPTS)
    => ~codeLast.result

\* the sixth call carries the stored code, which is still in the cache
LockoutWitness ==
    /\ VerifyOfIssued
    /\ codeLast.lead = MAX_ATTEMPTS
    /\ codeLast.nth = MAX_ATTEMPTS + 1
    /\ ~codeLast.result
    /\ CacheGet(cache, now, _key_code(codeLast.user)) = _hash(codeLast.code)

\* C6: a can_send for a contact returns true exactly when no can_send for that
\* contact returned true in the THROTTLE_TTL seconds before it, so of any
\* number of calls inside one window exactly one returns true.
ThrottleAtomicity ==
    codeLast.op = "can_send" =>
        (codeLast.result <=>
            (codeLast.prev = Never \/ now - codeLast.prev >= THROTTLE_TTL))

\* a call refused inside the window that a differently cased address opened
ThrottleWitness ==
    /\ codeLast.op = "can_send"
    /\ ~codeLast.result
    /\ codeLast.email = "A@x.io"
    /\ now - codeLast.prev < THROTTLE_TTL
    /\ codeLast.prev > 0

\* peek(u, c) with the code stored last, no verify made since the store
PeekOfIssued ==
    /\ codeLast.op = "peek"
    /\ issue[codeLast.user].code # NoCode
    /\ codeLast.code = issue[codeLast.user].code
    /\ codeLast.calls = 0

\* verify(u, c) with the code stored last, the first verify since the store
VerifyAfterPeeks ==
    /\ VerifyOfIssued
    /\ codeLast.nth = 1

\* C7 as stated: after store(u, c) every peek(u, c) returns true and a
\* following verify(u, c) returns true.
PeekThenVerifyAnyTime ==
    /\ PeekOfIssued => codeLast.result
    /\ VerifyAfterPeeks => codeLast.result

\* the results of C7 while the code is unexpired
PeekThenVerify ==
    /\ (PeekOfIssued /\ Unexpired(codeLast.user)) => codeLast.result
    /\ (VerifyAfterPeeks /\ Unexpired(codeLast.user)) => codeLast.result

\* a peek step leaves every cache entry (stored hash, attempt counter) as it was
PeekFrame == codeLast'.op = "peek" => cache' = cache

\* C7 amended: peek(u, c) leaves the stored hash and the attempt counter
\* unchanged; less than CODE_TTL seconds after store(u, c), with no verify in
\* between, every peek(u, c) returns true and a following verify(u, c) too.
PeekNonDestructive == []PeekThenVerify /\ [][PeekFrame]_vars

\* two peeks of the stored code, then a verify that succeeds
PeekWitness ==
    /\ VerifyAfterPeeks
    /\ codeLast.peeks = 2
    /\ codeLast.result

----------------------------------------------------------------------------
(* Properties of the access control *)

\* the member tables a workspace can be left with: rows deleted, switched
\* off, or with their role deleted
Deactivated(ms) == {[m EXCEPT !.is_active = FALSE] : m \in ms}

Unassigned(ms) == {[m EXCEPT !.role = NoRole] : m \in ms}

MemberTables == {members, {}, Deactivated(members), Unassigned(members)}

\* C1: for every workspace or project R the permission check allows R.owner
\* for every required capability and every HTTP method, also when the owner
\* has no membership row, a membership with a null role, or an inactive one.
OwnershipOverride ==
    /\ \A w \in workspaces, ms \in MemberTables,
          cap \in RequiredCapabilities \cup {NoPermission}, method \in Methods :
            HasWorkspacePermission(workspaces, roles, ms, w.owner, w.id, cap, method)
                = "allow"
    /\ \A p \in projects, ms \in MemberTables, pms \in {pmembers, {}},
          cap \in RequiredCapabilities \cup {NoPermission}, method \in Methods :
            HasProjectPermission(projects, roles, ms, pms, p.owner, p.id, cap, method)
                = "allow"

\* a project owner without workspace membership has updated the project, in a
\* workspace whose owner is left with an inactive membership and no role
OwnershipOverrideWitness ==
    /\ last.op = "update_project"
    /\ last.status = 200
    /\ \E p \in projects :
        /\ p.id = last.project
        /\ p.owner = last.actor
        /\ MemberRows(members, p.workspace, p.owner) = {}
        /\ \E m \in MemberRows(members, p.workspace, Workspace(p.workspace).owner) :
            ~m.is_active /\ m.role = NoRole

\* C2: for every workspace membership M with is_active = FALSE whose user is
\* not the workspace owner, the workspace permission check denies M.user for
\* every capability, also when M's role grants it.
InactiveMemberDenied ==
    \A m \in members, cap \in Capabilities, method \in Methods :
        (~m.is_active /\ Exists(m.workspace) /\ Workspace(m.workspace).owner # m.user)
            => HasWorkspacePermission(workspaces, roles, members, m.user,
                                      m.workspace, cap, method) = "deny"

\* the active members of a workspace that hold its admin role and do not own it
ActiveAdmins(workspace_id) ==
    {m.user : m \in {r \in MembersOf(members, workspace_id) :
                        /\ r.is_active
                        /\ RoleName(roles, r) = "admin"
                        /\ Workspace(workspace_id).owner # r.user}}

\* the rows a change-role body names, when they hold the admin role
AdminTargets(workspace_id, ident) ==
    IF TargetUser(ident) = {} THEN {}
    ELSE {m \in MemberRows(members, workspace_id, First(TargetUser(ident)).id) :
            RoleName(roles, m) = "admin"}

\* change-role by an active admin who is not the owner, on a member holding
\* the admin role, is answered 400 or 403
AdminDemotionRejected ==
    \A w \in workspaces, b \in AdminRoleBodies :
        \A a \in ActiveAdmins(w.id) :
            AdminTargets(w.id, b) # {}
                => ChangeRoleResponse(a, w.id, b, b.new_role) \in {400, 403}

\* a change-role step of such an actor leaves every row holding the admin role
AdminDemotionFrame ==
    (last'.op = "change_role" /\ Exists(last'.workspace))
        => \A m \in MembersOf(members, last'.workspace) :
            (RoleName(roles, m) = "admin"
                /\ last'.actor \in ActiveAdmins(last'.workspace))
            => m \in members'

\* C3: when the actor of change-role is an active admin member but not the
\* workspace owner and the target member holds the admin role, the request is
\* rejected and the target's role is unchanged, whatever new role is requested.
AdminDemotionRequiresOwnership == []AdminDemotionRejected /\ [][AdminDemotionFrame]_vars

\* an admin whose role grants can_change_roles was stopped by the view when
\* changing the role of another admin
AdminDemotionWitness ==
    /\ last.op = "change_role"
    /\ last.status = 403
    /\ last.actor \in ActiveAdmins(last.workspace)
    /\ last.target # last.actor
    /\ \E m \in MemberRows(members, last.workspace, last.actor) :
        SettingsGet(RoleSettings(roles, m), "can_change_roles")
    /\ \E m \in MemberRows(members, last.workspace, last.target) :
        RoleName(roles, m) = "admin"

\* at most one membership row per (user, workspace) and per (user, project)
UniquePairs ==
    /\ \A m1 \in members, m2 \in members :
        (m1.user = m2.user /\ m1.workspace = m2.workspace) => m1 = m2
    /\ \A m1 \in pmembers, m2 \in pmembers :
        (m1.user = m2.user /\ m1.project = m2.project) => m1 = m2

\* an add-member request for a pair that has a row, active or not, is not
\* answered 201, whoever sends it
DuplicateRejected ==
    /\ \A a \in Actors, w \in WorkspaceIds, b \in RaceBodies :
        AddMemberDuplicate(w, b.email) # {}
            => AddMemberStatus(a, w, b.email, b) \in {400, 403}
    /\ \A a \in Actors, p \in ProjectIds, e \in RaceEmails :
        AddProjectMemberDuplicate(p, e) # {}
            => AddProjectMemberStatus(a, p, e) \in {400, 403}

\* a step that refuses a duplicate, in the view or at the insert, creates no row
DuplicateCreatesNothing ==
    refused' # refused
        => (members' = members /\ pmembers' = pmembers /\ users' = users)

\* a row is only inserted for a pair that has none
InsertsAreNew ==
    /\ \A m \in {r \in members' : \A o \in members : o.id # r.id} :
        /\ MemberRows(members, m.workspace, m.user) = {}
        /\ MemberRows(members', m.workspace, m.user) = {m}
    /\ \A m \in {r \in pmembers' : \A o \in pmembers : o.id # r.id} :
        /\ ProjectMemberRows(pmembers, m.project, m.user) = {}
        /\ ProjectMemberRows(pmembers', m.project, m.user) = {m}

\* C8: in every reachable state there is at most one membership row per
\* (user, workspace) pair and per (user, project) pair; a second add-member
\* request for a pair that has a row (active or inactive) is rejected and
\* creates nothing, also when two requests for the pair run concurrently.
UniqueMembership ==
    /\ [](UniquePairs /\ DuplicateRejected)
    /\ [][DuplicateCreatesNothing /\ InsertsAreNew]_vars

\* duplicates were refused in the view and at the insert, for a workspace and
\* for a project, one of them behind a row that had been switched off
UniqueMembershipWitness ==
    /\ \A t \in {"workspace", "project"}, a \in {"view", "insert"} :
        \E r \in refused : r.table = t /\ r.at = a
    /\ \E r \in refused : r.at = "insert" /\ ~r.active
    /\ \E r \in refused : r.at = "view" /\ ~r.active

\* the roles of a workspace are the three seeded ones with the default maps
SeedRolesOf(rs, workspace_id) ==
    /\ Cardinality(RolesOf(rs, workspace_id)) = 3
    /\ \A n \in {ROLE_ADMIN, ROLE_USER, ROLE_CLIENT} :
        \E r \in RolesOf(rs, workspace_id) :
            r.name = n /\ r.settings = DEFAULT_ROLE_PERMISSIONS[n]

\* every workspace has its seed roles; no role is without workspace
SeedRoles ==
    /\ \A w \in workspaces : SeedRolesOf(roles, w.id)
    /\ \A r \in roles : Exists(r.workspace)

\* the roles are there when the first membership of a workspace appears, and
\* no step adds to or changes the roles of a workspace that exists
SeedRolesFrame ==
    /\ \A w \in WorkspaceIds :
        (MembersOf(members, w) = {} /\ MembersOf(members', w) # {})
            => SeedRolesOf(roles', w)
    /\ \A w \in workspaces : RolesOf(roles', w.id) = RolesOf(roles, w.id)

OwnerChangeResult ==
    (last.op = "change_owner" /\ last.status = 200)
        => /\ Workspace(last.workspace).owner = last.target
           /\ MemberRows(members, last.workspace, last.target) # {}
           /\ \A m \in MemberRows(members, last.workspace, last.target) :
                /\ RoleName(roles, m) = "admin"
                /\ RoleById(roles, last.workspace, m.role) # {}

\* ownership went to another member, who held the user role
OwnerChangeWitness ==
    /\ last.op = "change_owner"
    /\ last.status = 200
    /\ last.target # last.actor
    /\ last.was = "user"

\* an owner change asked by anybody but the owner is answered 403
TransferDenied ==
    /\ \A w \in workspaces, a \in Actors, i \in TransferIdents :
        a # w.owner => OwnerChangeResponse(a, w.id, i) = 403
    /\ \A p \in projects, a \in Actors, i \in ProjectTransferIdents :
        a # p.owner => ProjectOwnerChangeResponse(a, p.id, i) = 403

\* the owner of a workspace or project changes only in a transfer its owner
\* asked for, and a transfer answered otherwise than 200 changes no row
TransferFrame ==
    /\ \A w \in workspaces, v \in workspaces' :
        (v.id = w.id /\ v.owner # w.owner)
            => /\ last'.op = "change_owner" /\ last'.status = 200
               /\ last'.actor = w.owner /\ last'.workspace = w.id
    /\ \A p \in projects, q \in projects' :
        (q.id = p.id /\ q.owner # p.owner)
            => /\ last'.op = "change_project_owner" /\ last'.status = 200
               /\ last'.actor = p.owner /\ last'.project = p.id
    /\ (last'.op \in {"change_owner", "change_project_owner"} /\ last'.status # 200)
            => UNCHANGED <<workspaces, projects, members, pmembers, roles>>

NamesMember(workspace_id, ident) ==
    IF ident.new_member_id # 0
    THEN \E m \in members : m.id = ident.new_member_id /\ m.workspace = workspace_id
    ELSE \E u \in users :
            /\ \/ (ident.new_owner_id # NoUser /\ u.id = ident.new_owner_id)
               \/ (ident.new_owner_email # NoEmail /\ u.email = ident.new_owner_email)
            /\ \E m \in members : m.user = u.id /\ m.workspace = workspace_id

\* the body of a project owner change names a member of the project
NamesProjectMember(project_id, ident) ==
    IF ident.new_member_id # 0
    THEN \E m \in pmembers : m.id = ident.new_member_id /\ m.project = project_id
    ELSE \E u \in users :
            /\ \/ (ident.new_owner_id # NoUser /\ u.id = ident.new_owner_id)
               \/ (ident.new_owner_email # NoEmail /\ u.email = ident.new_owner_email)
            /\ \E m \in pmembers : m.user = u.id /\ m.project = project_id

\* the owner's transfer to somebody who is no member is answered 400
NonMemberRejected ==
    /\ \A w \in workspaces, i \in TransferIdents :
        ~NamesMember(w.id, i) => OwnerChangeResponse(w.owner, w.id, i) = 400
    /\ \A p \in projects, i \in ProjectTransferIdents :
        ~NamesProjectMember(p.id, i) => ProjectOwnerChangeResponse(p.owner, p.id, i) = 400

\* a transfer answered 400 changes nothing, no transfer creates a membership
\* row, and a new owner had a membership before the step
NonMemberFrame ==
    /\ (last'.op \in {"change_owner", "change_project_owner"} /\ last'.status = 400)
            => UNCHANGED <<users, workspaces, projects, members, pmembers, roles>>
    /\ last'.op \in {"change_owner", "change_project_owner"}
            => /\ {m.id : m \in members'} = {m.id : m \in members}
               /\ {m.id : m \in pmembers'} = {m.id : m \in pmembers}
    /\ \A w \in workspaces, v \in workspaces' :
        (v.id = w.id /\ v.owner # w.owner) => MemberRows(members, w.id, v.owner) # {}
    /\ \A p \in projects, q \in projects' :
        (q.id = p.id /\ q.owner # p.owner)
            => ProjectMemberRows(pmembers, p.id, q.owner) # {}

OutgoingOwnerKeepsAdmin ==
    (last.op = "change_owner" /\ last.status = 200)
        => \E m \in MemberRows(members, last.workspace, last.actor) :
                RoleName(roles, m) = "admin"

\* C14: in a workspace ownership transfer the promotion of the new owner's
\* role to admin and the update of workspace.owner are one atomic unit: no
\* state shows the role promoted with the owner pointer still unchanged.
TransferAtomic ==
    \A s \in 1..MaxInFlight :
        pending[s].workspace # 0
            => ~ /\ Workspace(pending[s].workspace).owner # pending[s].user
                 /\ \E m \in MemberRows(members, pending[s].workspace, pending[s].user) :
                        RoleName(roles, m) = "admin" /\ m.role # pending[s].role

\* C15: in every state reachable by workspace creation, add member, activate
\* and deactivate member, change role and ownership transfer, the workspace's
\* owner has a membership row in that workspace whose role is its admin role.
OwnerIsAdminMember ==
    \A w \in workspaces :
        \E m \in MemberRows(members, w.id, w.owner) : RoleName(roles, m) = "admin"

\* the role table as it is, and with one more capability granted to every role
RoleTables ==
    {roles} \cup {{[r EXCEPT !.settings = GrantSetting(@, k)] : r \in roles} :
                    k \in Capabilities}

IsActiveProjectMember(p, user_id) ==
    \E pm \in ProjectMemberRows(pmembers, p.id, user_id) : pm.is_active

\* C16: for a project with is_public false, an actor who is neither the
\* project's owner nor an active ProjectMember of it is denied
\* can_view_project, for every capability map of the actor's workspace role.
PrivateProjectHidden ==
    \A p \in projects, a \in Actors, rs \in RoleTables :
        (~p.is_public /\ p.owner # a /\ ~IsActiveProjectMember(p, a))
            => HasProjectPermission(projects, rs, members, pmembers, a, p.id,
                                    NoPermission, "GET") # "allow"

NamedCapabilities == Capabilities \ DEFAULT_ALWAYS_ALLOWED_PERMISSIONS

\* an active member, not the owner, whose role's settings do not hold the name
UnknownTo(m, workspace_id, owner, cap) ==
    /\ m.workspace = workspace_id
    /\ m.is_active
    /\ m.user # owner
    /\ cap \notin DOMAIN RoleSettings(roles, m)

WorkspaceCheckDenies ==
    \A w \in workspaces, m \in members, cap \in NamedCapabilities :
        (UnknownTo(m, w.id, w.owner, cap) /\ \E r \in roles : r.id = m.role)
            => HasWorkspacePermission(workspaces, roles, members, m.user, w.id,
                                      cap, "POST") = "deny"

\* the visibility rule of a project, read from the rows
VisibleTo(p, m) ==
    \/ IsActiveProjectMember(p, m.user)
    \/ /\ p.is_public
       /\ \E r \in roles :
            /\ r.id = m.role
            /\ "can_view_public_projects" \in DOMAIN r.settings
            /\ r.settings["can_view_public_projects"]

HoldsSeeded(m, name) ==
    \E r \in roles :
        /\ r.id = m.role
        /\ r.workspace = m.workspace
        /\ r.name = name
        /\ r.settings = DEFAULT_ROLE_PERMISSIONS[name]

\* the member the body names has a role that is not the admin role
NamesNonAdmin(workspace_id, ident) ==
    /\ TargetUser(ident) # {}
    /\ \E t \in MemberRows(members, workspace_id, First(TargetUser(ident)).id) :
            RoleName(roles, t) \in {"user", "client"}

\* C18: a non-owner active member holding the workspace's seeded admin role
\* is allowed to add a member, to activate or deactivate a member and to
\* change the role of a non-admin member, while a member holding the seeded
\* user or client role is denied each of these operations.
SeededAdminManagesMembers ==
    \A w \in workspaces, m \in members, name \in {"admin", "user", "client"} :
        (m.workspace = w.id /\ m.is_active /\ m.user # w.owner /\ HoldsSeeded(m, name))
            => /\ \A b \in AddBodies :
                    (AddMemberStatus(m.user, w.id, b.email, b) # 403) <=> (name = "admin")
               /\ \A b \in ToggleBodies :
                    (ToggleResponse(m.user, w.id, b, b.target) # 403) <=> (name = "admin")
               /\ \A b \in RoleBodies :
                    NamesNonAdmin(w.id, b)
                        => ((ChangeRoleResponse(m.user, w.id, b, b.new_role) # 403)
                                <=> (name = "admin"))

\* the actor has an active membership of the workspace whose role grants the capability
ActiveRoleGrants(actor, workspace_id, cap) ==
    \E m \in members, r \in roles :
        /\ m.workspace = workspace_id /\ m.user = actor /\ m.is_active
        /\ r.id = m.role
        /\ cap \in DOMAIN r.settings
        /\ r.settings[cap]

\* C19: a non-owner actor is allowed to activate or deactivate a project
\* member, and to activate or deactivate the project, exactly when the actor
\* has an active workspace membership whose role grants
\* can_invite_users_to_project, resp. can_delete_projects.
ProjectManagementByRole ==
    \A p \in projects, a \in Actors :
        a # p.owner
            => \* activate and deactivate a project member
               /\ (ToggleProjectDecision(a, p.id) = "allow")
                        <=> ActiveRoleGrants(a, p.workspace, "can_invite_users_to_project")
               \* activate and deactivate the project
               /\ (ToggleProjectDecision(a, p.id) = "allow")
                        <=> ActiveRoleGrants(a, p.workspace, "can_delete_projects")

\* C20: every active ProjectMember of a project is allowed can_view_project
\* on it, whatever the state, role or existence of the user's workspace
\* membership; and a non-member of a public project is allowed to view it
\* when their active workspace role grants can_view_public_projects.
ProjectMembersCanView ==
    /\ \A p \in projects, pm \in pmembers :
        (pm.project = p.id /\ pm.is_active)
            => HasProjectPermission(projects, roles, members, pmembers, pm.user, p.id,
                                    "can_view_project", "GET") = "allow"
    /\ \A p \in projects, a \in Actors :
        (p.is_public /\ ~IsActiveProjectMember(p, a)
         /\ ActiveRoleGrants(a, p.workspace, "can_view_public_projects"))
            => HasProjectPermission(projects, roles, members, pmembers, a, p.id,
                                    "can_view_project", "GET") = "allow"

\* C21: for a non-owner active workspace member whose role is null, the
\* workspace permission check returns deny, a decision and not an error, for
\* every capability outside the always-allowed set, and the project
\* permission check does the same.
NullRoleDenied ==
    \A m \in members, cap \in NamedCapabilities :
        (m.is_active /\ m.role = NoRole)
            => /\ \A w \in workspaces :
                    (w.id = m.workspace /\ w.owner # m.user)
                        => HasWorkspacePermission(workspaces, roles, members, m.user,
                                                  w.id, cap, "POST") = "deny"
               /\ \A p \in projects :
                    (p.workspace = m.workspace /\ p.owner # m.user)
                        => HasProjectPermission(projects, roles, members, pmembers,
                                                m.user, p.id, cap, "POST") = "deny"

\* the body names, by user id or by email, a user whose membership of the
\* workspace is switched off
NamesInactiveMember(workspace_id, ident) ==
    /\ ident.new_member_id = 0
    /\ \E u \in users, m \in members :
        /\ \/ ident.new_owner_id # NoUser /\ u.id = ident.new_owner_id
           \/ ident.new_owner_email # NoEmail /\ u.email = ident.new_owner_email
        /\ m.user = u.id /\ m.workspace = workspace_id /\ ~m.is_active

\* C22: a workspace ownership transfer whose target is resolved by user id
\* or email to a user whose membership in the workspace has is_active false
\* is rejected and leaves the owner pointer and all roles unchanged.
InactiveTargetRejected ==
    \A w \in workspaces, a \in Actors, i \in TransferIdents :
        NamesInactiveMember(w.id, i) => OwnerChangeResponse(a, w.id, i) # 200

\* a body that names the member by user id
ById(user_id, target) == [user_id |-> user_id, email |-> NoEmail, target |-> target]

\* a request for the state the member is in gets 400, one for the other state 200
ToggleAnswers ==
    /\ \A m \in members, t \in BOOLEAN :
        ToggleStatus(m.workspace, ById(m.user, t), t)
            = IF m.is_active = t THEN 400 ELSE 200
    /\ \A pm \in pmembers, t \in BOOLEAN :
        ToggleProjectMemberStatus(pm.project, ById(pm.user, t), t)
            = IF pm.is_active = t THEN 400 ELSE 200

\* the rows with one row's is_active set to the target value
Switched(rows, row, target) == (rows \ {row}) \cup {[row EXCEPT !.is_active = target]}

\* a toggle request changes at most one row, only in is_active, to the target value
ToggleFrame ==
    /\ (last'.op \in {"activate", "deactivate"} /\ members' # members)
        => \E m \in members :
            /\ m.is_active # (last'.op = "activate")
            /\ m.user = last'.target /\ m.workspace = last'.workspace
            /\ members' = Switched(members, m, last'.op = "activate")
    /\ (last'.op \in {"activate_project_member", "deactivate_project_member"}
        /\ pmembers' # pmembers)
        => \E pm \in pmembers :
            /\ pm.is_active # (last'.op = "activate_project_member")
            /\ pm.project = last'.project
            /\ pmembers' = Switched(pmembers, pm, last'.op = "activate_project_member")
    /\ (last'.op \in {"activate", "deactivate", "activate_project_member",
                      "deactivate_project_member"} /\ last'.status # 200)
        => (members' = members /\ pmembers' = pmembers)

\* C23: an activate (deactivate) request for a workspace or project member
\* that is already active (inactive) is rejected and changes nothing;
\* otherwise it sets is_active to the target value and leaves the member's
\* role and every other membership row unchanged.
SetActiveRejectsNoOp == []ToggleAnswers /\ [][ToggleFrame]_vars

\* a workspace member and a project member were deactivated; the rows are
\* inactive, the workspace row kept its role, and a second deactivate gets 400
SetActiveWitness ==
    /\ last.op = "deactivate_project_member"
    /\ last.status = 200
    /\ \E pm \in pmembers :
        /\ pm.project = last.project /\ ~pm.is_active
        /\ ToggleProjectMemberStatus(pm.project, ById(pm.user, FALSE), FALSE) = 400
    /\ \E m \in members :
        /\ ~m.is_active /\ RoleName(roles, m) # ""
        /\ ToggleStatus(m.workspace, ById(m.user, FALSE), FALSE) = 400

\* the body names a member whose is_active is false
NamesInactiveTarget(workspace_id, ident) ==
    /\ TargetUser(ident) # {}
    /\ \E m \in MemberRows(members, workspace_id, First(TargetUser(ident)).id) :
            ~m.is_active

InactiveChangeRoleRejected ==
    \A w \in workspaces, a \in Actors, b \in RoleBodies :
        NamesInactiveTarget(w.id, b) => ChangeRoleResponse(a, w.id, b, b.new_role) # 200

InactiveRoleKept ==
    \A m \in members, n \in members' : (~m.is_active /\ n.id = m.id) => n.role = m.role

\* C24: a change-role request whose target member has is_active false fails
\* and leaves the target's role unchanged, for every actor including the
\* workspace owner; so the role of a member changes only while that member
\* is active.
RoleChangesOnlyWhileActive == []InactiveChangeRoleRejected /\ [][InactiveRoleKept]_vars

\* right after store(u, c): the hash of c is stored, the counter is gone, a
\* verify of c would succeed and a verify of any other code would fail
StoredAfresh ==
    codeLast.op = "store"
        => /\ CacheGet(cache, now, _key_code(codeLast.user)) = _hash(codeLast.code)
           /\ CacheGet(cache, now, _key_attempts(codeLast.user)) = 0
           /\ verify_code_result(cache, now, codeLast.user, codeLast.code)
           /\ \A c \in Codes \ {codeLast.code} :
                ~verify_code_result(cache, now, codeLast.user, c)

\* a verify with a code other than the one stored last fails
OnlyStoredVerifies ==
    (codeLast.op = "verify" /\ codeLast.code # issue[codeLast.user].code)
        => ~codeLast.result

\* C25 as stated: from every CodeStore state of user u, store(u, c) replaces
\* the stored hash and resets the attempt counter, so the next verify(u, c)
\* returns true and a previously stored code no longer verifies.
ReissueResetsAnyTime ==
    /\ StoredAfresh
    /\ (VerifyOfIssued /\ codeLast.nth = 1) => codeLast.result
    /\ OnlyStoredVerifies

\* C25: from every CodeStore state of user u, store(u, c) replaces the stored
\* hash and resets the attempt counter, so the next verify(u, c), made less
\* than CODE_TTL seconds after the store, returns true and a previously
\* stored code no longer verifies.
ReissueResets ==
    /\ StoredAfresh
    /\ (VerifyOfIssued /\ codeLast.nth = 1 /\ Unexpired(codeLast.user)) => codeLast.result
    /\ OnlyStoredVerifies

\* a store made while the user was locked out on another code
ReissueWitness ==
    /\ codeLast.op = "store"
    /\ codeLast.attempts > MAX_ATTEMPTS
    /\ codeLast.prev \in Codes \ {codeLast.code}
    /\ verify_code_result(cache, now, codeLast.user, codeLast.code)

\* user u is locked out: a code is stored and the counter is above the cap
LockedOut(u) ==
    /\ CacheLive(cache, now, _key_code(u))
    /\ CacheGet(cache, now, _key_attempts(u)) > MAX_ATTEMPTS

\* C27: while user u is locked out (attempt counter above 5, code still
\* stored), neither verify nor peek reports any candidate code as valid
\* until a new code is stored.
NoMatchDuringLockout ==
    \A u \in CodeUsers, c \in Codes :
        LockedOut(u)
            => /\ ~verify_code_result(cache, now, u, c)
               /\ ~peek_code_result(cache, now, u, c)

\* while the code is stored the counter holds every verify call made since
\* the store, and it does not expire before the code
CounterOutlivesCode ==
    \A u \in CodeUsers :
        CacheLive(cache, now, _key_code(u))
            => /\ CacheGet(cache, now, _key_attempts(u)) = issue[u].calls
               /\ issue[u].calls > 0
                    => cache[_key_attempts(u)].exp >= cache[_key_code(u)].exp

\* C28: the attempt counter of a user never expires or resets while the code
\* it guards is still stored, so once locked out verify(u, c) returns false
\* for every c at every later time until store(u, _) is called.
LockoutPersists ==
    /\ CounterOutlivesCode
    /\ (codeLast.op = "verify" /\ issue[codeLast.user].code # NoCode
        /\ codeLast.nth > MAX_ATTEMPTS) => ~codeLast.result

\* a verify of the stored code refused by the lockout, time having passed
\* since the store and the code being still in the cache
LockoutPersistsWitness ==
    /\ VerifyOfIssued
    /\ ~codeLast.result
    /\ now > issue[codeLast.user].at
    /\ LockedOut(codeLast.user)

\* C26: after a code is stored for a user, 5 consecutive password-reset
\* confirm requests carrying a wrong code lock the user out, so that a
\* following confirm request carrying the correct code is rejected and the
\* password is not changed.
ResetAttemptCap ==
    (codeLast.op = "confirm"
        /\ codeLast.wrong >= MAX_ATTEMPTS
        /\ codeLast.code = issue[codeLast.user].code)
    => codeLast.status # 200

\* C29: for one stored code of user u, among any number of concurrent
\* verify(u, c) calls with the correct code, under every interleaving of
\* their cache operations, at most one returns true.
OneTimeUseConcurrent == \A u \in CodeUsers : issue[u].hits <= 1

\* no call is between two of its cache operations
Quiet == \A s \in 1..MaxInFlight : flight[s] = IdleCall

\* C30: between one store(u, _) and the next, under every interleaving of
\* concurrent verify calls for u, at most 5 verify calls reach the comparison
\* against the stored hash; every verify call increments the counter by
\* exactly one and none is lost.
AttemptCapConcurrent ==
    \A u \in CodeUsers :
        /\ issue[u].compared <= MAX_ATTEMPTS
        /\ (Quiet /\ CacheLive(cache, now, _key_code(u)))
                => CacheGet(cache, now, _key_attempts(u)) = issue[u].calls

====
